---------------------------- MODULE Spec2Model ----------------------------
(***************************************************************************)
(* A model of the payment intake service: the value objects, the Payment  *)
(* aggregate and its status state machine, the SQLite payment repository  *)
(* (the payments table with the constraints of migration 001) and the     *)
(* application service built on it.                                        *)
(*                                                                         *)
(* Strings whose content the code inspects (IBANs, idempotency keys,      *)
(* names) are sequences of one-character strings.  Times are integers.    *)
(* Errors are strings: "nil" is Go's nil error.                           *)
(***************************************************************************)
EXTENDS Integers, Sequences, FiniteSets, TLC

VARIABLES
    agg,        \* SpecAggregate: the aggregate under test (NilPayment before construction)
    aggLast,    \* SpecAggregate: the last call made on it, with the aggregate before the call
    markLog,    \* SpecAggregate: the errors of the MarkAs... calls made on agg, in order
    rows,       \* the rows of the payments table
    pc,         \* per caller: where its call in flight stands
    loc,        \* per caller: the locals of its call in flight
    last,       \* Spec: the call that returned last, with its arguments and results
    ret,        \* per caller, what its last call returned
    schema_migrations,  \* the rows of the schema_migrations table
    schemaEffects,      \* per migration file: how often its script was committed
    mig         \* per migrator process: its Migrate run

aggVars == <<agg, aggLast, markLog>>
storeVars == <<rows, pc, loc, last, ret>>
migVars == <<schema_migrations, schemaEffects, mig>>
vars == <<agg, aggLast, markLog, rows, pc, loc, last, ret,
          schema_migrations, schemaEffects, mig>>

---------------------------------------------------------------------------
(* Bounds of the model *)

MaxTime == 2
MaxCalls == 3

Times == 1..MaxTime

(* Program constants *)

MinNameLen == 3
SchemaMaxNameLen == 30
KeyLen == 10

---------------------------------------------------------------------------
(* Characters *)

UpperSeq == <<"A","B","C","D","E","F","G","H","I","J","K","L","M",
              "N","O","P","Q","R","S","T","U","V","W","X","Y","Z">>
LowerSeq == <<"a","b","c","d","e","f","g","h","i","j","k","l","m",
              "n","o","p","q","r","s","t","u","v","w","x","y","z">>
UpperLetters == {UpperSeq[i] : i \in 1..26}
LowerLetters == {LowerSeq[i] : i \in 1..26}
Digits == {"0","1","2","3","4","5","6","7","8","9"}

\* strings.ToUpper, one character
ToUpperChar(c) ==
    IF c \in LowerLetters
    THEN UpperSeq[CHOOSE i \in 1..26 : LowerSeq[i] = c]
    ELSE c

\* strings.ToUpper
ToUpper(s) == [i \in 1..Len(s) |-> ToUpperChar(s[i])]

\* strings.ReplaceAll(s, " ", "")
RemoveSpaces(s) == SelectSeq(s, LAMBDA c : c # " ")

---------------------------------------------------------------------------
(* Value objects *)

\* The pattern with an unbounded tail: ^[A-Z]{2}[0-9]{2}[A-Z0-9]{4}[0-9]{7}[A-Z0-9]*$
ibanRegex_OpenTail(s) ==
    /\ Len(s) >= 15
    /\ \A i \in 1..Len(s) :
         CASE i <= 2  -> s[i] \in UpperLetters
           [] i <= 4  -> s[i] \in Digits
           [] i <= 8  -> s[i] \in UpperLetters \cup Digits
           [] i <= 15 -> s[i] \in Digits
           [] OTHER   -> s[i] \in UpperLetters \cup Digits

\* ^[A-Z]{2}[0-9]{2}[A-Z0-9]{4}[0-9]{7}([A-Z0-9]?){0,16}$
ibanRegex(s) ==
    /\ Len(s) >= 15
    /\ Len(s) <= 31
    /\ \A i \in 1..Len(s) :
         CASE i <= 2  -> s[i] \in UpperLetters
           [] i <= 4  -> s[i] \in Digits
           [] i <= 8  -> s[i] \in UpperLetters \cup Digits
           [] i <= 15 -> s[i] \in Digits
           [] OTHER   -> s[i] \in UpperLetters \cup Digits

\* shared.NewIBAN: [value, err]
NewIBAN(value) ==
    LET normalized == ToUpper(RemoveSpaces(value))
    IN  IF ~ibanRegex(normalized)
        THEN [value |-> <<>>, err |-> "ErrInvalidIBAN"]
        ELSE [value |-> normalized, err |-> "nil"]

\* ^[A-Za-z0-9]{10}$
idempotencyKeyRegex(s) ==
    /\ Len(s) = KeyLen
    /\ \A i \in 1..Len(s) : s[i] \in UpperLetters \cup LowerLetters \cup Digits

\* NewIdempotencyKey storing the token in upper case
NewIdempotencyKey_Upper(value) ==
    IF ~idempotencyKeyRegex(value)
    THEN [value |-> <<>>, err |-> "ErrInvalidIdempotencyKey"]
    ELSE [value |-> ToUpper(value), err |-> "nil"]

\* shared.NewIdempotencyKey: [value, err]
NewIdempotencyKey(value) ==
    IF ~idempotencyKeyRegex(value)
    THEN [value |-> <<>>, err |-> "ErrInvalidIdempotencyKey"]
    ELSE [value |-> value, err |-> "nil"]

\* shared.NewAmountFromCents: [value, err]
NewAmountFromCents(cents) ==
    IF cents < 0
    THEN [value |-> 0, err |-> "ErrInvalidAmount"]
    ELSE [value |-> cents, err |-> "nil"]

\* Amount.IsZero
IsZero(a) == a = 0

---------------------------------------------------------------------------
(* The Payment aggregate *)

StatusPending == "PENDING"
StatusProcessed == "PROCESSED"
StatusFailed == "FAILED"

\* PaymentStatus.IsFinal
IsFinal(s) == s = StatusProcessed \/ s = StatusFailed

\* Go's nil *Payment
NilPayment == [isNil |-> TRUE]

IsNil(p) == p = NilPayment

\* validatePaymentData: the error it returns
validatePaymentData(debtorName, creditorName, amount) ==
    IF Len(debtorName) < MinNameLen THEN "ErrInvalidAmount"
    ELSE IF Len(creditorName) < MinNameLen THEN "ErrInvalidAmount"
    ELSE IF IsZero(amount) THEN "ErrInvalidAmount"
    ELSE "nil"

\* payment.NewPayment: [p, err]
NewPayment(id, debtorIBAN, debtorName, creditorIBAN, creditorName, amount, idempotencyKey, createdAt, updatedAt) ==
    LET err == validatePaymentData(debtorName, creditorName, amount)
    IN  IF err # "nil"
        THEN [p |-> NilPayment, err |-> err]
        ELSE [p |-> [isNil |-> FALSE,
                     id |-> id,
                     debtorIBAN |-> debtorIBAN,
                     debtorName |-> debtorName,
                     creditorIBAN |-> creditorIBAN,
                     creditorName |-> creditorName,
                     amount |-> amount,
                     idempotencyKey |-> idempotencyKey,
                     status |-> StatusPending,
                     createdAt |-> createdAt,
                     updatedAt |-> updatedAt],
              err |-> "nil"]

\* canTransitionTo with Processed treated like Pending
canTransitionTo_TerminalOpen(p, newStatus) ==
    CASE p.status \in {StatusPending, StatusProcessed} ->
           newStatus = StatusProcessed \/ newStatus = StatusFailed
      [] OTHER -> FALSE

\* Payment.canTransitionTo
canTransitionTo(p, newStatus) ==
    CASE p.status = StatusPending ->
           newStatus = StatusProcessed \/ newStatus = StatusFailed
      [] p.status \in {StatusProcessed, StatusFailed} -> FALSE
      [] OTHER -> FALSE

\* MarkAsProcessed writing the timestamp before it checks the transition
MarkAsProcessed_StampFirst(p, updatedAt) ==
    IF ~canTransitionTo(p, StatusProcessed)
    THEN [p |-> [p EXCEPT !.updatedAt = updatedAt],
          err |-> "ErrInvalidStatusTransition"]
    ELSE [p |-> [p EXCEPT !.status = StatusProcessed, !.updatedAt = updatedAt],
          err |-> "nil"]

\* Payment.MarkAsProcessed: [p, err], p the aggregate after the call
MarkAsProcessed(p, updatedAt) ==
    IF ~canTransitionTo(p, StatusProcessed)
    THEN [p |-> p, err |-> "ErrInvalidStatusTransition"]
    ELSE [p |-> [p EXCEPT !.status = StatusProcessed, !.updatedAt = updatedAt],
          err |-> "nil"]

\* MarkAsFailed without the transition guard
MarkAsFailed_NoGuard(p, updatedAt) ==
    [p |-> [p EXCEPT !.status = StatusFailed, !.updatedAt = updatedAt],
     err |-> "nil"]

\* MarkAsFailed keeping the old timestamp
MarkAsFailed_NoStamp(p, updatedAt) ==
    IF ~canTransitionTo(p, StatusFailed)
    THEN [p |-> p, err |-> "ErrInvalidStatusTransition"]
    ELSE [p |-> [p EXCEPT !.status = StatusFailed], err |-> "nil"]

\* Payment.MarkAsFailed: [p, err], p the aggregate after the call
MarkAsFailed(p, updatedAt) ==
    IF ~canTransitionTo(p, StatusFailed)
    THEN [p |-> p, err |-> "ErrInvalidStatusTransition"]
    ELSE [p |-> [p EXCEPT !.status = StatusFailed, !.updatedAt = updatedAt],
          err |-> "nil"]

---------------------------------------------------------------------------
(* Inputs *)

Name(n) == [i \in 1..n |-> "x"]

Ids == {"p1", "p2"}

RawIBAN1 == <<"d","e","8","9"," ","3","7","0","4"," ","0","0","4","4"," ","0","5","3">>
RawIBAN2 == <<"F","R","1","4","2","0","0","M","1","0","1","0","0","5","0">>
RawKey1 == <<"a","b","c","1","2","3","X","Y","Z","0">>
RawKey2 == <<"x","y","z","7","8","9","A","B","C","1">>

DebtorIBAN == NewIBAN(RawIBAN1).value
CreditorIBAN == NewIBAN(RawIBAN2).value
Keys == {NewIdempotencyKey(k).value : k \in {RawKey1, RawKey2}}

AggNames == {Name(MinNameLen - 1), Name(MinNameLen),
             Name(SchemaMaxNameLen), Name(SchemaMaxNameLen + 1)}
AggAmounts == {NewAmountFromCents(c).value : c \in {0, 10050}}

NoCall == [op |-> "none"]

---------------------------------------------------------------------------
(* The migrator (migrator.go): file names, parsing, pending migrations *)

Min(a, b) == IF a < b THEN a ELSE b

\* strings.HasSuffix
HasSuffix(s, suffix) ==
    /\ Len(s) >= Len(suffix)
    /\ SubSeq(s, Len(s) - Len(suffix) + 1, Len(s)) = suffix

\* strings.Contains
Contains(s, substr) ==
    \E i \in 1..(Len(s) - Len(substr) + 1) :
        SubSeq(s, i, i + Len(substr) - 1) = substr

\* strings.SplitN(s, sep, 2) for a separator of one character
SplitN2(s, sep) ==
    LET hits == {i \in 1..Len(s) : s[i] = sep}
    IN  IF hits = {} THEN <<s>>
        ELSE LET i == CHOOSE k \in hits : \A j \in hits : k <= j
             IN  <<SubSeq(s, 1, i - 1), SubSeq(s, i + 1, Len(s))>>

DigitSeq == <<"0","1","2","3","4","5","6","7","8","9">>

DigitVal(c) == (CHOOSE i \in 1..10 : DigitSeq[i] = c) - 1

RECURSIVE DecimalValue(_)
DecimalValue(ds) ==
    IF ds = <<>> THEN 0
    ELSE 10 * DecimalValue(SubSeq(ds, 1, Len(ds) - 1)) + DigitVal(ds[Len(ds)])

\* fmt.Sscanf(s, "%03d", &version): an optional sign, then decimal digits, at
\* most three characters in all; what follows is left unread.  [ok, version]
Sscanf03d(s) ==
    LET w == SubSeq(s, 1, Min(Len(s), 3))
        signed == Len(w) > 0 /\ w[1] \in {"+", "-"}
        body == IF signed THEN Tail(w) ELSE w
        stops == {i \in 1..Len(body) : body[i] \notin Digits}
        n == IF stops = {} THEN Len(body)
             ELSE (CHOOSE i \in stops : \A j \in stops : i <= j) - 1
        v == DecimalValue(SubSeq(body, 1, n))
    IN  IF n = 0 THEN [ok |-> FALSE, version |-> 0]
        ELSE [ok |-> TRUE, version |-> IF signed /\ w[1] = "-" THEN 0 - v ELSE v]

\* parseMigrationFile taking a name it cannot parse as version 0
parseMigrationFile_Lenient(filename) ==
    LET parts == SplitN2(filename, "_")
        sc == IF Len(parts) = 2 THEN Sscanf03d(parts[1])
              ELSE [ok |-> FALSE, version |-> 0]
    IN  [m |-> [Version |-> IF sc.ok THEN sc.version ELSE 0, SQL |-> filename],
         err |-> "nil"]

\* Migrator.parseMigrationFile: [m, err]; the script is named by its file
parseMigrationFile(filename) ==
    LET parts == SplitN2(filename, "_")
    IN  IF Len(parts) # 2
        THEN [m |-> [Version |-> 0, SQL |-> <<>>],
              err |-> "invalid migration filename format"]
        ELSE LET sc == Sscanf03d(parts[1])
             IN  IF ~sc.ok
                 THEN [m |-> [Version |-> 0, SQL |-> <<>>],
                       err |-> "failed to parse version from filename"]
                 ELSE [m |-> [Version |-> sc.version, SQL |-> filename],
                       err |-> "nil"]

\* The orders sort.Slice (not stable) can leave ms in: every arrangement of
\* ms with ascending versions
SortByVersion(ms) ==
    {[i \in 1..Len(ms) |-> ms[f[i]]] :
        f \in {g \in [1..Len(ms) -> 1..Len(ms)] :
                 /\ \A i, j \in 1..Len(ms) : i # j => g[i] # g[j]
                 /\ \A i, j \in 1..Len(ms) :
                        i < j => ms[g[i]].Version <= ms[g[j]].Version}}

DotSql == <<".","s","q","l">>
TestDataMark == <<"t","e","s","t","_","d","a","t","a">>

\* getAvailableMigrations without the sort.Slice: ReadDir's order is kept
getAvailableMigrations_Unsorted(entries) ==
    LET kept == SelectSeq(entries,
                    LAMBDA e : HasSuffix(e, DotSql) /\ ~Contains(e, TestDataMark))
        bad == {i \in 1..Len(kept) : parseMigrationFile(kept[i]).err # "nil"}
    IN  IF bad # {}
        THEN [migrations |-> {<<>>}, err |-> "failed to parse migration file"]
        ELSE [migrations |-> {[i \in 1..Len(kept) |-> parseMigrationFile(kept[i]).m]},
              err |-> "nil"]

\* Migrator.getAvailableMigrations on the embedded directory entries, in
\* ReadDir's order: [migrations, err], migrations being the possible results
getAvailableMigrations(entries) ==
    LET kept == SelectSeq(entries,
                    LAMBDA e : HasSuffix(e, DotSql) /\ ~Contains(e, TestDataMark))
        bad == {i \in 1..Len(kept) : parseMigrationFile(kept[i]).err # "nil"}
    IN  IF bad # {}
        THEN [migrations |-> {<<>>}, err |-> "failed to parse migration file"]
        ELSE [migrations |->
                  SortByVersion([i \in 1..Len(kept) |-> parseMigrationFile(kept[i]).m]),
              err |-> "nil"]

\* Migrator.getAppliedMigrations: the tracking rows, ORDER BY version
RECURSIVE getAppliedMigrations(_)
getAppliedMigrations(tbl) ==
    IF tbl = {} THEN <<>>
    ELSE LET r == CHOOSE x \in tbl : \A y \in tbl : x.version <= y.version
         IN  <<[Version |-> r.version, AppliedAt |-> r.applied_at]>>
                 \o getAppliedMigrations(tbl \ {r})

\* findPendingMigrations ignoring the applied versions
findPendingMigrations_All(available, applied) == available

\* Migrator.findPendingMigrations
findPendingMigrations(available, applied) ==
    LET appliedMap == {applied[i].Version : i \in 1..Len(applied)}
    IN  SelectSeq(available, LAMBDA m : m.Version \notin appliedMap)

---------------------------------------------------------------------------
(* Inputs of the migrator *)

\* Migrate runs started on the database
MaxRuns == 2

Migrators == {"m1", "m2"}

File001 == <<"0","0","1","_","a",".","s","q","l">>
File010 == <<"0","1","0","_","b",".","s","q","l">>
File9 == <<"9","_","c",".","s","q","l">>
TestDataFile == <<"t","e","s","t","_","d","a","t","a",".","s","q","l">>

\* Misnamed scripts: a prefix that is not a number, and no "_" at all
BadPrefixFile == <<"b","_","d",".","s","q","l">>
NoSeparatorFile == <<"x",".","s","q","l">>

\* The embedded migrations directory of a build, as ReadDir lists it (by
\* file name): the first release, a later one with two more scripts, and
\* two builds that ship a misnamed script
EmbedSets == {<<File001, TestDataFile>>,
              <<File001, File010, File9, TestDataFile>>,
              <<File001, BadPrefixFile>>,
              <<File001, NoSeparatorFile>>}

MigrationFiles ==
    {File001, File010, File9, TestDataFile, BadPrefixFile, NoSeparatorFile}

\* A script whose four-digit prefix is read as version 1 ("%03d" reads three
\* digits), like that of File001, and a build that ships both; ReadDir lists
\* "0015_e.sql" before "001_a.sql"
File0015 == <<"0","0","1","5","_","e",".","s","q","l">>

DuplicateEmbedSets == {<<File0015, File001, TestDataFile>>}

\* Every script a build may hold
ScriptNames == MigrationFiles \cup {File0015}

\* A migrator process that has not run Migrate
NoRun ==
    [pc |-> "idle", runs |-> 0, entries |-> <<>>, pending |-> <<>>, i |-> 0,
     at |-> 0, attempted |-> <<>>, applied |-> <<>>, err |-> "none",
     before |-> {}]


---------------------------------------------------------------------------
(* SpecAggregate: one aggregate, constructed and then marked *)

Callers == {"c1", "c2"}

\* No aggregate constructed, empty tables, no call or migration in flight
Init ==
    /\ agg = NilPayment
    /\ aggLast = NoCall
    /\ markLog = <<>>
    /\ rows = {}
    /\ pc = [c \in Callers |-> "idle"]
    /\ loc = [c \in Callers |-> NoCall]
    /\ last = NoCall
    /\ ret = [c \in Callers |-> NoCall]
    /\ schema_migrations = {}
    /\ schemaEffects = [f \in ScriptNames |-> 0]
    /\ mig = [m \in Migrators |-> NoRun]

AggNewPayment ==
    /\ aggLast = NoCall
    /\ \E dn \in AggNames, cn \in AggNames, a \in AggAmounts, t \in Times :
        LET r == NewPayment("p1", DebtorIBAN, dn, CreditorIBAN, cn, a,
                            NewIdempotencyKey(RawKey1).value, t, t)
        IN  /\ agg' = r.p
            /\ aggLast' = [op |-> "NewPayment", debtorName |-> dn,
                           creditorName |-> cn, amount |-> a, t |-> t,
                           err |-> r.err, before |-> agg]
            /\ markLog' = <<>>
            /\ UNCHANGED <<storeVars, migVars>>

AggMarkAsProcessed ==
    /\ ~IsNil(agg)
    /\ Len(markLog) < MaxCalls
    /\ \E t \in Times :
        LET r == MarkAsProcessed(agg, t)
        IN  /\ agg' = r.p
            /\ aggLast' = [op |-> "MarkAsProcessed", t |-> t, err |-> r.err,
                           before |-> agg]
            /\ markLog' = Append(markLog, r.err)
    /\ UNCHANGED <<storeVars, migVars>>

AggMarkAsFailed ==
    /\ ~IsNil(agg)
    /\ Len(markLog) < MaxCalls
    /\ \E t \in Times :
        LET r == MarkAsFailed(agg, t)
        IN  /\ agg' = r.p
            /\ aggLast' = [op |-> "MarkAsFailed", t |-> t, err |-> r.err,
                           before |-> agg]
            /\ markLog' = Append(markLog, r.err)
    /\ UNCHANGED <<storeVars, migVars>>

NextAggregate == AggNewPayment \/ AggMarkAsProcessed \/ AggMarkAsFailed

SpecAggregate == Init /\ [][NextAggregate]_vars

---------------------------------------------------------------------------
(* The payments table (001_create_payments_table.sql) *)

\* Payment{}: the zero value the service returns beside an error
EmptyPayment ==
    [isNil |-> FALSE, id |-> "", debtorIBAN |-> <<>>, debtorName |-> <<>>,
     creditorIBAN |-> <<>>, creditorName |-> <<>>, amount |-> 0,
     idempotencyKey |-> <<>>, status |-> "", createdAt |-> 0, updatedAt |-> 0]

\* The values Save binds to the INSERT's columns
RowOf(p) ==
    [id |-> p.id,
     debtor_iban |-> p.debtorIBAN,
     debtor_name |-> p.debtorName,
     creditor_iban |-> p.creditorIBAN,
     creditor_name |-> p.creditorName,
     amount_cents |-> p.amount,
     currency |-> "EUR",
     idempotency_key |-> p.idempotencyKey,
     status |-> p.status,
     created_at |-> p.createdAt,
     updated_at |-> p.updatedAt]

\* The CHECK constraints without the one on status
CheckConstraints_NoStatus(r) ==
    /\ Len(r.debtor_name) >= MinNameLen /\ Len(r.debtor_name) <= SchemaMaxNameLen
    /\ Len(r.creditor_name) >= MinNameLen /\ Len(r.creditor_name) <= SchemaMaxNameLen
    /\ r.amount_cents > 0
    /\ Len(r.idempotency_key) = KeyLen

\* The CHECK constraints of the payments table
CheckConstraints(r) ==
    /\ Len(r.debtor_name) >= MinNameLen /\ Len(r.debtor_name) <= SchemaMaxNameLen
    /\ Len(r.creditor_name) >= MinNameLen /\ Len(r.creditor_name) <= SchemaMaxNameLen
    /\ r.amount_cents > 0
    /\ Len(r.idempotency_key) = KeyLen
    /\ r.status \in {"PENDING", "PROCESSED", "FAILED"}

\* The INSERT without the UNIQUE constraint on idempotency_key
InsertErrors_NoUniqueKey(rws, r) ==
    IF ~CheckConstraints(r) THEN {"CHECK constraint failed"}
    ELSE IF \E x \in rws : x.id = r.id
         THEN {"UNIQUE constraint failed: payments.id"}
         ELSE {"nil"}

\* The INSERT with the UNIQUE constraint on debtor_iban instead of
\* idempotency_key
InsertErrors_UniqueDebtor(rws, r) ==
    IF ~CheckConstraints(r) THEN {"CHECK constraint failed"}
    ELSE LET pk == \E x \in rws : x.id = r.id
             uq == \E x \in rws : x.debtor_iban = r.debtor_iban
         IN  IF ~pk /\ ~uq THEN {"nil"}
             ELSE {m \in {"UNIQUE constraint failed: payments.id"} : pk}
                  \cup {m \in {"UNIQUE constraint failed: payments.debtor_iban"} : uq}

\* The error messages an INSERT of r can end with ("nil": the row is inserted):
\* the CHECK constraints are tested first, then PRIMARY KEY (id) and UNIQUE
\* (idempotency_key); when both of these are violated either may be reported.
InsertErrors(rws, r) ==
    IF ~CheckConstraints(r) THEN {"CHECK constraint failed"}
    ELSE LET pk == \E x \in rws : x.id = r.id
             uq == \E x \in rws : x.idempotency_key = r.idempotency_key
         IN  IF ~pk /\ ~uq THEN {"nil"}
             ELSE {m \in {"UNIQUE constraint failed: payments.id"} : pk}
                  \cup {m \in {"UNIQUE constraint failed: payments.idempotency_key"} : uq}

\* isUniqueConstraintError, on the driver's message
isUniqueConstraintError(msg) ==
    /\ msg # "nil"
    /\ \/ msg = "UNIQUE constraint failed: payments.idempotency_key"
       \/ msg = "UNIQUE constraint failed: payments.id"

\* The INSERT as INSERT OR REPLACE, still reporting the conflict
Save_Replace(rws, p) ==
    IF IsNil(p)
    THEN {[rows |-> rws, err |-> "payment cannot be nil"]}
    ELSE {IF msg = "nil"
          THEN [rows |-> rws \cup {RowOf(p)}, err |-> "nil"]
          ELSE [rows |-> IF isUniqueConstraintError(msg)
                         THEN {x \in rws : /\ x.id # RowOf(p).id
                                           /\ x.idempotency_key # RowOf(p).idempotency_key}
                                  \cup {RowOf(p)}
                         ELSE rws,
                err |-> IF isUniqueConstraintError(msg)
                        THEN "ErrDuplicateIdempotencyKey"
                        ELSE "failed to save payment"]
          : msg \in InsertErrors(rws, RowOf(p))}

\* PaymentRepository.Save: the outcomes [rows, err] of Save(p) on table rws
Save(rws, p) ==
    IF IsNil(p)
    THEN {[rows |-> rws, err |-> "payment cannot be nil"]}
    ELSE {IF msg = "nil"
          THEN [rows |-> rws \cup {RowOf(p)}, err |-> "nil"]
          ELSE [rows |-> rws,
                err |-> IF isUniqueConstraintError(msg)
                        THEN "ErrDuplicateIdempotencyKey"
                        ELSE "failed to save payment"]
          : msg \in InsertErrors(rws, RowOf(p))}

\* sql.ErrNoRows: QueryRowContext matched nothing
NoRow == [noRows |-> TRUE]

\* QueryRowContext(... WHERE id = ?): the first matching row
QueryRowById(rws, id) ==
    LET m == {r \in rws : r.id = id}
    IN  IF m = {} THEN NoRow ELSE CHOOSE r \in m : TRUE

\* QueryRowContext(... WHERE idempotency_key = ?): the first matching row
QueryRowByKey(rws, key) ==
    LET m == {r \in rws : r.idempotency_key = key}
    IN  IF m = {} THEN NoRow ELSE CHOOSE r \in m : TRUE

\* scanPayment leaving the aggregate in the status NewPayment gave it
scanPayment_NoReplay(row) ==
    IF row = NoRow THEN [p |-> NilPayment, err |-> "sql.ErrNoRows"]
    ELSE NewPayment(row.id, NewIBAN(row.debtor_iban).value, row.debtor_name,
                    NewIBAN(row.creditor_iban).value, row.creditor_name,
                    NewAmountFromCents(row.amount_cents).value,
                    NewIdempotencyKey(row.idempotency_key).value,
                    row.created_at, row.updated_at)

\* PaymentRepository.scanPayment: [p, err]
scanPayment(row) ==
    IF row = NoRow THEN [p |-> NilPayment, err |-> "sql.ErrNoRows"]
    ELSE
    LET debtorIBANObj == NewIBAN(row.debtor_iban)
        creditorIBANObj == NewIBAN(row.creditor_iban)
        amount == NewAmountFromCents(row.amount_cents)
        idempotencyKeyObj == NewIdempotencyKey(row.idempotency_key)
        np == NewPayment(row.id, debtorIBANObj.value, row.debtor_name,
                         creditorIBANObj.value, row.creditor_name, amount.value,
                         idempotencyKeyObj.value, row.created_at, row.updated_at)
    IN  IF debtorIBANObj.err # "nil"
        THEN [p |-> NilPayment, err |-> "invalid debtor IBAN in database"]
        ELSE IF creditorIBANObj.err # "nil"
        THEN [p |-> NilPayment, err |-> "invalid creditor IBAN in database"]
        ELSE IF amount.err # "nil"
        THEN [p |-> NilPayment, err |-> "invalid amount in database"]
        ELSE IF idempotencyKeyObj.err # "nil"
        THEN [p |-> NilPayment, err |-> "invalid idempotency key in database"]
        ELSE IF np.err # "nil"
        THEN [p |-> NilPayment, err |-> "failed to create payment domain object"]
        ELSE CASE row.status = StatusProcessed ->
                    LET m == MarkAsProcessed(np.p, row.updated_at)
                    IN  IF m.err # "nil"
                        THEN [p |-> NilPayment,
                              err |-> "failed to set payment status to processed"]
                        ELSE [p |-> m.p, err |-> "nil"]
               [] row.status = StatusFailed ->
                    LET m == MarkAsFailed(np.p, row.updated_at)
                    IN  IF m.err # "nil"
                        THEN [p |-> NilPayment,
                              err |-> "failed to set payment status to failed"]
                        ELSE [p |-> m.p, err |-> "nil"]
               [] row.status = StatusPending -> [p |-> np.p, err |-> "nil"]
               [] OTHER -> [p |-> NilPayment, err |-> "unknown payment status"]

\* PaymentRepository.FindByID: [payment, err]
FindByID(rws, id) ==
    LET s == scanPayment(QueryRowById(rws, id))
    IN  IF s.err # "nil"
        THEN IF s.err = "sql.ErrNoRows"
             THEN [payment |-> NilPayment, err |-> "nil"]
             ELSE [payment |-> NilPayment, err |-> "failed to find payment by ID"]
        ELSE [payment |-> s.p, err |-> "nil"]

\* PaymentRepository.FindByIdempotencyKey: [payment, err]
FindByIdempotencyKey(rws, key) ==
    LET s == scanPayment(QueryRowByKey(rws, key))
    IN  IF s.err # "nil"
        THEN IF s.err = "sql.ErrNoRows"
             THEN [payment |-> NilPayment, err |-> "nil"]
             ELSE [payment |-> NilPayment,
                   err |-> "failed to find payment by idempotency key"]
        ELSE [payment |-> s.p, err |-> "nil"]

\* UpdateStatus with the UPDATE restricted to rows still Pending
UpdateStatus_OnlyPending(rws, id, status, now) ==
    LET m == {r \in rws : r.id = id /\ r.status = StatusPending}
        upd(r) == [r EXCEPT !.status = status, !.updated_at = now]
    IN  IF \E r \in m : ~CheckConstraints(upd(r))
        THEN [rows |-> rws, err |-> "failed to update payment status"]
        ELSE IF m = {}
        THEN [rows |-> rws, err |-> "payment with ID not found"]
        ELSE [rows |-> (rws \ m) \cup {upd(r) : r \in m}, err |-> "nil"]

\* The UPDATE without its WHERE clause
UpdateStatus_EveryRow(rws, id, status, now) ==
    LET m == {r \in rws : \E x \in rws : x.id = id}
        upd(r) == [r EXCEPT !.status = status, !.updated_at = now]
    IN  IF \E r \in m : ~CheckConstraints(upd(r))
        THEN [rows |-> rws, err |-> "failed to update payment status"]
        ELSE IF m = {}
        THEN [rows |-> rws, err |-> "payment with ID not found"]
        ELSE [rows |-> (rws \ m) \cup {upd(r) : r \in m}, err |-> "nil"]

\* PaymentRepository.UpdateStatus at database time now: [rows, err].  The UPDATE
\* sets status and updated_at of the rows with that id (the AFTER UPDATE
\* trigger writes the same CURRENT_TIMESTAMP again); a status outside the
\* CHECK list fails the statement.
UpdateStatus(rws, id, status, now) ==
    LET m == {r \in rws : r.id = id}
        upd(r) == [r EXCEPT !.status = status, !.updated_at = now]
    IN  IF \E r \in m : ~CheckConstraints(upd(r))
        THEN [rows |-> rws, err |-> "failed to update payment status"]
        ELSE IF m = {}
        THEN [rows |-> rws, err |-> "payment with ID not found"]
        ELSE [rows |-> (rws \ m) \cup {upd(r) : r \in m}, err |-> "nil"]

\* PaymentService.EnsureIdempotency: [payment, err]
EnsureIdempotency(rws, key) ==
    LET f == FindByIdempotencyKey(rws, key)
    IN  IF f.err # "nil" /\ f.err # "ErrPaymentNotFound"
        THEN [payment |-> EmptyPayment, err |-> f.err]
        ELSE IF f.err = "nil"
        THEN [payment |-> f.payment, err |-> "ErrDuplicatePayment"]
        ELSE [payment |-> EmptyPayment, err |-> "nil"]

\* PaymentService.ProcessStatusUpdate up to its Save: [updated, err], the
\* aggregate to save and the error returned before saving ("nil": none).
\* A call of MarkAs... on the nil payment FindByID returned dereferences nil.
\* The switch without its default branch: any status is written
StatusUpdateTransition_NoDefault(existing, newStatus, updatedAt) ==
    CASE newStatus \in {StatusProcessed, StatusFailed} /\ IsNil(existing) ->
           [updated |-> NilPayment, err |-> "panic: nil pointer dereference"]
      [] newStatus = StatusProcessed ->
           LET m == MarkAsProcessed(existing, updatedAt)
           IN  [updated |-> m.p, err |-> m.err]
      [] newStatus = StatusFailed ->
           LET m == MarkAsFailed(existing, updatedAt)
           IN  [updated |-> m.p, err |-> m.err]
      [] OTHER -> [updated |-> existing, err |-> "nil"]

StatusUpdateTransition(existing, newStatus, updatedAt) ==
    CASE newStatus \in {StatusProcessed, StatusFailed} /\ IsNil(existing) ->
           [updated |-> NilPayment, err |-> "panic: nil pointer dereference"]
      [] newStatus = StatusProcessed ->
           LET m == MarkAsProcessed(existing, updatedAt)
           IN  [updated |-> m.p, err |-> m.err]
      [] newStatus = StatusFailed ->
           LET m == MarkAsFailed(existing, updatedAt)
           IN  [updated |-> m.p, err |-> m.err]
      [] OTHER -> [updated |-> NilPayment, err |-> "ErrInvalidPaymentStatus"]

---------------------------------------------------------------------------
(* Inputs of the repository and the service *)

StoreDebtorName == <<"A","n","n">>
StoreCreditorName == <<"J","o","e","y">>
LongName == Name(SchemaMaxNameLen + 1)
StoreAmount == NewAmountFromCents(10050).value

\* Payments are constructed at time 1; later calls run at time MaxTime
CreateTime == 1
CallTimes == {MaxTime}

\* The aggregates NewPayment constructs from the inputs with debtor names dns
Built(dns) ==
    {NewPayment(id, DebtorIBAN, dn, CreditorIBAN, StoreCreditorName, StoreAmount,
                k, CreateTime, CreateTime).p :
        id \in Ids, dn \in dns, k \in Keys} \ {NilPayment}

\* The aggregates a caller can hold: constructed, then possibly marked
Marked(ps) ==
    ps \cup {MarkAsProcessed(p, t).p : p \in ps, t \in CallTimes}
       \cup {MarkAsFailed(p, t).p : p \in ps, t \in CallTimes}

SaveInputs == Marked(Built({StoreDebtorName})) \cup {NilPayment}

StatusInputs == {StatusPending, StatusProcessed, StatusFailed, "INVALID"}

Idle == \E c \in Callers : pc[c] = "idle"

---------------------------------------------------------------------------
(* Spec: callers of the repository and the service on one payments table.  *)
(* A call is one step per SQL statement it executes.                       *)

DoSave ==
    /\ Idle
    /\ \E p \in SaveInputs : \E o \in Save(rows, p) :
        /\ rows' = o.rows
        /\ last' = [op |-> "Save", p |-> p, err |-> o.err]
    /\ UNCHANGED <<pc, loc, ret, aggVars, migVars>>

DoFindByID ==
    /\ Idle
    /\ \E id \in Ids :
        LET f == FindByID(rows, id)
        IN  last' = [op |-> "FindByID", id |-> id, payment |-> f.payment,
                     err |-> f.err]
    /\ UNCHANGED <<rows, pc, loc, ret, aggVars, migVars>>

DoFindByIdempotencyKey ==
    /\ Idle
    /\ \E k \in Keys :
        LET f == FindByIdempotencyKey(rows, k)
        IN  last' = [op |-> "FindByIdempotencyKey", key |-> k,
                     payment |-> f.payment, err |-> f.err]
    /\ UNCHANGED <<rows, pc, loc, ret, aggVars, migVars>>

DoUpdateStatus ==
    /\ Idle
    /\ \E id \in Ids, st \in StatusInputs, now \in CallTimes :
        LET u == UpdateStatus(rows, id, st, now)
        IN  /\ rows' = u.rows
            /\ last' = [op |-> "UpdateStatus", id |-> id, status |-> st,
                        err |-> u.err]
    /\ UNCHANGED <<pc, loc, ret, aggVars, migVars>>

DoEnsureIdempotency ==
    /\ Idle
    /\ \E k \in Keys :
        LET e == EnsureIdempotency(rows, k)
        IN  last' = [op |-> "EnsureIdempotency", key |-> k,
                     payment |-> e.payment, err |-> e.err]
    /\ UNCHANGED <<rows, pc, loc, ret, aggVars, migVars>>

\* ProcessStatusUpdate, first statement: FindByID, then the transition in
\* memory; the call returns here on any error
StatusUpdateLoad ==
    \E c \in Callers, id \in Ids, st \in StatusInputs, t \in CallTimes :
        /\ pc[c] = "idle"
        /\ LET f == FindByID(rows, id)
               call == [op |-> "ProcessStatusUpdate", id |-> id,
                        newStatus |-> st, t |-> t, loaded |-> f.payment]
               tr == StatusUpdateTransition(f.payment, st, t)
           IN  IF f.err # "nil"
               THEN /\ last' = [call EXCEPT !.loaded = NilPayment] @@ [err |-> f.err]
                    /\ UNCHANGED <<pc, loc>>
               ELSE IF tr.err # "nil"
               THEN /\ last' = call @@ [err |-> tr.err]
                    /\ UNCHANGED <<pc, loc>>
               ELSE /\ pc' = [pc EXCEPT ![c] = "save"]
                    /\ loc' = [loc EXCEPT ![c] = call @@ [updated |-> tr.updated]]
                    /\ UNCHANGED last
        /\ UNCHANGED <<rows, ret, aggVars, migVars>>

\* ProcessStatusUpdate, second statement: Save of the updated aggregate
StatusUpdateSave ==
    \E c \in Callers :
        /\ pc[c] = "save"
        /\ \E o \in Save(rows, loc[c].updated) :
            /\ rows' = o.rows
            /\ last' = [op |-> "ProcessStatusUpdate", id |-> loc[c].id,
                        newStatus |-> loc[c].newStatus, t |-> loc[c].t,
                        loaded |-> loc[c].loaded, err |-> o.err]
        /\ pc' = [pc EXCEPT ![c] = "idle"]
        /\ loc' = [loc EXCEPT ![c] = NoCall]
        /\ UNCHANGED <<ret, aggVars, migVars>>

Next ==
    \/ DoSave
    \/ DoFindByID
    \/ DoFindByIdempotencyKey
    \/ DoUpdateStatus
    \/ DoEnsureIdempotency
    \/ StatusUpdateLoad
    \/ StatusUpdateSave

Spec == Init /\ [][Next]_vars

---------------------------------------------------------------------------
(* SpecSavePair: two callers, each calling Save once on the empty table.   *)
(* A call is in flight between SaveCall and SaveReturn, where its INSERT   *)
(* executes, so the two calls run in either order or overlap.              *)

PairInputs == Marked(Built({StoreDebtorName, LongName})) \cup {NilPayment}

SaveCall ==
    \E c \in Callers, p \in PairInputs :
        /\ pc[c] = "idle"
        /\ ret[c] = NoCall
        /\ pc' = [pc EXCEPT ![c] = "saving"]
        /\ loc' = [loc EXCEPT ![c] = [op |-> "Save", p |-> p]]
        /\ UNCHANGED <<rows, last, ret, aggVars, migVars>>

SaveReturn ==
    \E c \in Callers :
        /\ pc[c] = "saving"
        /\ \E o \in Save(rows, loc[c].p) :
            /\ rows' = o.rows
            /\ ret' = [ret EXCEPT ![c] =
                         [op |-> "Save", p |-> loc[c].p, err |-> o.err,
                          overlapped |-> \E d \in Callers \ {c} : pc[d] = "saving"]]
        /\ pc' = [pc EXCEPT ![c] = "idle"]
        /\ loc' = [loc EXCEPT ![c] = NoCall]
        /\ UNCHANGED <<last, aggVars, migVars>>

NextSavePair == SaveCall \/ SaveReturn

SpecSavePair == Init /\ [][NextSavePair]_vars

---------------------------------------------------------------------------
(* SpecStatusUpdate: two callers of the domain Service's                   *)
(* ProcessStatusUpdate (FindByID, guard in memory, UpdateStatus) on        *)
(* payments stored by Save.                                                *)

\* Service.ProcessStatusUpdate between FindByID and UpdateStatus: the error
\* returned before the UPDATE ("nil": none).  The marked aggregate is dropped;
\* only the guard's verdict is used.
ServiceTransition(payment, newStatus, now) ==
    CASE newStatus \in {StatusProcessed, StatusFailed} /\ IsNil(payment) ->
           "panic: nil pointer dereference"
      [] newStatus = StatusProcessed -> MarkAsProcessed(payment, now).err
      [] newStatus = StatusFailed -> MarkAsFailed(payment, now).err
      [] OTHER -> "ErrInvalidPaymentStatus"

StoredStatus(rws, id) ==
    IF \E r \in rws : r.id = id
    THEN (CHOOSE r \in rws : r.id = id).status
    ELSE "none"

\* Service.ProcessStatusUpdate, first statement: FindByID, then the guard in
\* memory; the call returns here on any error
ServiceStatusLoad ==
    \E c \in Callers, id \in Ids, st \in StatusInputs, now \in CallTimes :
        /\ pc[c] = "idle"
        /\ LET f == FindByID(rows, id)
               call == [op |-> "Service.ProcessStatusUpdate", id |-> id,
                        newStatus |-> st, loaded |-> f.payment]
               e == ServiceTransition(f.payment, st, now)
           IN  IF f.err # "nil"
               THEN /\ last' = [call EXCEPT !.loaded = NilPayment] @@ [err |-> f.err]
                    /\ UNCHANGED <<pc, loc>>
               ELSE IF e # "nil"
               THEN /\ last' = call @@ [err |-> e]
                    /\ UNCHANGED <<pc, loc>>
               ELSE /\ pc' = [pc EXCEPT ![c] = "update"]
                    /\ loc' = [loc EXCEPT ![c] = call]
                    /\ UNCHANGED last
        /\ UNCHANGED <<rows, ret, aggVars, migVars>>

\* Service.ProcessStatusUpdate, second statement: UpdateStatus
ServiceStatusWrite ==
    \E c \in Callers, now \in CallTimes :
        /\ pc[c] = "update"
        /\ LET u == UpdateStatus(rows, loc[c].id, loc[c].newStatus, now)
               done == loc[c] @@ [err |-> u.err,
                                  before |-> StoredStatus(rows, loc[c].id)]
           IN  /\ rows' = u.rows
               /\ last' = done
               /\ ret' = [ret EXCEPT ![c] = done]
        /\ pc' = [pc EXCEPT ![c] = "idle"]
        /\ loc' = [loc EXCEPT ![c] = NoCall]
        /\ UNCHANGED <<aggVars, migVars>>

NextStatusUpdate ==
    \/ DoSave
    \/ ServiceStatusLoad
    \/ ServiceStatusWrite

SpecStatusUpdate == Init /\ [][NextStatusUpdate]_vars

---------------------------------------------------------------------------
(* SpecMigrate: migrator processes running Migrate on one database, one    *)
(* step per SQL statement.  Any statement can fail (an SQL error, a        *)
(* cancelled context, a busy database), and a process can be interrupted   *)
(* between statements; SQLite then rolls its open transaction back.        *)

StartFaults == {"none", "create", "select"}

RECURSIVE RunsStarted(_)
RunsStarted(ms) ==
    IF ms = {} THEN 0
    ELSE LET m == CHOOSE x \in ms : TRUE
         IN  mig[m].runs + RunsStarted(ms \ {m})

\* Another process holds SQLite's write lock: its transaction has written
WriteLocked(m) == \E o \in Migrators \ {m} : mig[o].pc \in {"insert", "commit"}

\* Migrate returns err
Returned(run, err) == [run EXCEPT !.pc = "done", !.err = err]

\* Migrate up to its loop: createMigrationsTable, getAvailableMigrations,
\* getAppliedMigrations, findPendingMigrations
MigrateStart ==
    \E m \in Migrators, entries \in EmbedSets, fault \in StartFaults :
        /\ mig[m].pc \in {"idle", "done"}
        /\ RunsStarted(Migrators) < MaxRuns
        /\ LET run == [NoRun EXCEPT !.runs = mig[m].runs + 1,
                                    !.entries = entries,
                                    !.before = schema_migrations]
               av == getAvailableMigrations(entries)
           IN  IF fault = "create"
               THEN mig' = [mig EXCEPT ![m] =
                              Returned(run, "failed to create migrations table")]
               ELSE IF av.err # "nil"
               THEN mig' = [mig EXCEPT ![m] =
                              Returned(run, "failed to get available migrations")]
               ELSE IF fault = "select"
               THEN mig' = [mig EXCEPT ![m] =
                              Returned(run, "failed to get applied migrations")]
               ELSE \E available \in av.migrations :
                      LET pending == findPendingMigrations(available,
                                         getAppliedMigrations(schema_migrations))
                      IN  mig' = [mig EXCEPT ![m] =
                                    IF pending = <<>>
                                    THEN Returned(run, "nil")
                                    ELSE [run EXCEPT !.pc = "begin",
                                                     !.pending = pending,
                                                     !.i = 1]]
        /\ UNCHANGED <<schema_migrations, schemaEffects, aggVars, storeVars>>

\* applyMigration: BeginTx
MigrateBeginTx ==
    \E m \in Migrators, ok \in BOOLEAN :
        /\ mig[m].pc = "begin"
        /\ LET run == [mig[m] EXCEPT !.attempted =
                          Append(@, mig[m].pending[mig[m].i].Version)]
           IN  mig' = [mig EXCEPT ![m] =
                         IF ok THEN [run EXCEPT !.pc = "exec"]
                         ELSE Returned(run, "failed to begin transaction")]
        /\ UNCHANGED <<schema_migrations, schemaEffects, aggVars, storeVars>>

\* The script executed on the database handle, outside the transaction: its
\* effects are committed at once
MigrateExecScript_AutoCommit ==
    \E m \in Migrators, ok \in BOOLEAN :
        /\ mig[m].pc = "exec"
        /\ ok => ~WriteLocked(m)
        /\ mig' = [mig EXCEPT ![m] =
                     IF ok THEN [@ EXCEPT !.pc = "insert"]
                     ELSE Returned(@, "failed to execute migration SQL")]
        /\ schemaEffects' =
              IF ok THEN [schemaEffects EXCEPT ![mig[m].pending[mig[m].i].SQL] = @ + 1]
              ELSE schemaEffects
        /\ UNCHANGED <<schema_migrations, aggVars, storeVars>>

\* applyMigration: tx.ExecContext(migration.SQL).  The script's writes need
\* the write lock and stay in the transaction.
MigrateExecScript ==
    \E m \in Migrators, ok \in BOOLEAN :
        /\ mig[m].pc = "exec"
        /\ ok => ~WriteLocked(m)
        /\ mig' = [mig EXCEPT ![m] =
                     IF ok THEN [@ EXCEPT !.pc = "insert"]
                     ELSE Returned(@, "failed to execute migration SQL")]
        /\ UNCHANGED <<schema_migrations, schemaEffects, aggVars, storeVars>>

\* The tracking INSERT on a table whose version column is not a key
MigrateRecord_NoPrimaryKey ==
    \E m \in Migrators, ok \in BOOLEAN, now \in Times :
        /\ mig[m].pc = "insert"
        /\ mig' = [mig EXCEPT ![m] =
                     IF ok THEN [@ EXCEPT !.pc = "commit", !.at = now]
                     ELSE Returned(@, "failed to record migration")]
        /\ UNCHANGED <<schema_migrations, schemaEffects, aggVars, storeVars>>

\* A failed INSERT logged and skipped: Migrate goes on to the next migration
MigrateRecord_Continue ==
    \E m \in Migrators, ok \in BOOLEAN, now \in Times :
        /\ mig[m].pc = "insert"
        /\ LET v == mig[m].pending[mig[m].i].Version
               taken == \E r \in schema_migrations : r.version = v
           IN  mig' = [mig EXCEPT ![m] =
                         IF ok /\ ~taken
                         THEN [@ EXCEPT !.pc = "commit", !.at = now]
                         ELSE IF mig[m].i < Len(mig[m].pending)
                         THEN [@ EXCEPT !.pc = "begin", !.i = mig[m].i + 1]
                         ELSE Returned(@, "failed to record migration")]
        /\ UNCHANGED <<schema_migrations, schemaEffects, aggVars, storeVars>>

\* applyMigration: INSERT INTO schema_migrations (version); applied_at is the
\* CURRENT_TIMESTAMP default.  version is the PRIMARY KEY.
MigrateRecord ==
    \E m \in Migrators, ok \in BOOLEAN, now \in Times :
        /\ mig[m].pc = "insert"
        /\ LET v == mig[m].pending[mig[m].i].Version
               taken == \E r \in schema_migrations : r.version = v
           IN  mig' = [mig EXCEPT ![m] =
                         IF ok /\ ~taken
                         THEN [@ EXCEPT !.pc = "commit", !.at = now]
                         ELSE Returned(@, "failed to record migration")]
        /\ UNCHANGED <<schema_migrations, schemaEffects, aggVars, storeVars>>

\* applyMigration: tx.Commit, then the next pending migration or the return
MigrateCommit_ReturnsEarly ==
    \E m \in Migrators, ok \in BOOLEAN :
        /\ mig[m].pc = "commit"
        /\ LET run == mig[m]
               cur == run.pending[run.i]
           IN  IF ok
               THEN /\ schema_migrations' = schema_migrations \cup
                          {[version |-> cur.Version, applied_at |-> run.at]}
                    /\ schemaEffects' = [schemaEffects EXCEPT ![cur.SQL] = @ + 1]
                    /\ mig' = [mig EXCEPT ![m] =
                          Returned([run EXCEPT !.applied = Append(@, cur.Version)],
                                   "nil")]
               ELSE /\ mig' = [mig EXCEPT ![m] = Returned(run, "failed to commit")]
                    /\ UNCHANGED <<schema_migrations, schemaEffects>>
        /\ UNCHANGED <<aggVars, storeVars>>

MigrateCommit ==
    \E m \in Migrators, ok \in BOOLEAN :
        /\ mig[m].pc = "commit"
        /\ LET run == mig[m]
               cur == run.pending[run.i]
           IN  IF ok
               THEN /\ schema_migrations' = schema_migrations \cup
                          {[version |-> cur.Version, applied_at |-> run.at]}
                    /\ schemaEffects' = [schemaEffects EXCEPT ![cur.SQL] = @ + 1]
                    /\ mig' = [mig EXCEPT ![m] =
                          LET done == [run EXCEPT !.applied = Append(@, cur.Version)]
                          IN  IF run.i = Len(run.pending)
                              THEN Returned(done, "nil")
                              ELSE [done EXCEPT !.pc = "begin", !.i = run.i + 1]]
               ELSE /\ mig' = [mig EXCEPT ![m] = Returned(run, "failed to commit")]
                    /\ UNCHANGED <<schema_migrations, schemaEffects>>
        /\ UNCHANGED <<aggVars, storeVars>>

\* The process is killed during a run; the open transaction is rolled back
MigrateInterrupt ==
    \E m \in Migrators :
        /\ mig[m].pc \in {"begin", "exec", "insert", "commit"}
        /\ mig' = [mig EXCEPT ![m] = Returned(@, "interrupted")]
        /\ UNCHANGED <<schema_migrations, schemaEffects, aggVars, storeVars>>

NextMigrate ==
    \/ MigrateStart
    \/ MigrateBeginTx
    \/ MigrateExecScript
    \/ MigrateRecord
    \/ MigrateCommit
    \/ MigrateInterrupt

SpecMigrate == Init /\ [][NextMigrate]_vars

\* Migrate with its scheduling: a process that is not killed executes its next
\* statement, and every statement returns (SQLite gives up a lock wait after
\* the busy timeout). MigrateStart and MigrateInterrupt are left to the
\* environment.
SpecMigrateFair ==
    /\ Init
    /\ [][NextMigrate]_vars
    /\ WF_vars(MigrateBeginTx)
    /\ WF_vars(MigrateExecScript)
    /\ WF_vars(MigrateRecord)
    /\ WF_vars(MigrateCommit)

---------------------------------------------------------------------------
(* SpecDuplicateVersions: Migrate by a build with two scripts of one version *)

\* Migrate up to its loop, by the build of DuplicateEmbedSets
MigrateStartDuplicate ==
    \E m \in Migrators, entries \in DuplicateEmbedSets, fault \in StartFaults :
        /\ mig[m].pc \in {"idle", "done"}
        /\ RunsStarted(Migrators) < MaxRuns
        /\ LET run == [NoRun EXCEPT !.runs = mig[m].runs + 1,
                                    !.entries = entries,
                                    !.before = schema_migrations]
               av == getAvailableMigrations(entries)
           IN  IF fault = "create"
               THEN mig' = [mig EXCEPT ![m] =
                              Returned(run, "failed to create migrations table")]
               ELSE IF av.err # "nil"
               THEN mig' = [mig EXCEPT ![m] =
                              Returned(run, "failed to get available migrations")]
               ELSE IF fault = "select"
               THEN mig' = [mig EXCEPT ![m] =
                              Returned(run, "failed to get applied migrations")]
               ELSE \E available \in av.migrations :
                      LET pending == findPendingMigrations(available,
                                         getAppliedMigrations(schema_migrations))
                      IN  mig' = [mig EXCEPT ![m] =
                                    IF pending = <<>>
                                    THEN Returned(run, "nil")
                                    ELSE [run EXCEPT !.pc = "begin",
                                                     !.pending = pending,
                                                     !.i = 1]]
        /\ UNCHANGED <<schema_migrations, schemaEffects, aggVars, storeVars>>

NextDuplicateVersions ==
    \/ MigrateStartDuplicate
    \/ MigrateBeginTx
    \/ MigrateExecScript
    \/ MigrateRecord
    \/ MigrateCommit
    \/ MigrateInterrupt

SpecDuplicateVersions == Init /\ [][NextDuplicateVersions]_vars

----------------------------------------------------------------------------
(* SpecMigrationStatus: Migrate runs and one status query on the database *)

\* AppliedAt is a *time.Time: <<>> is the nil pointer, <<t>> points to t
NilTime == <<>>

\* migrationMap after the loop over availableMigrations: one entry per
\* version, the last migration of that version in the list
migrationMapOf(available) ==
    [v \in {available[i].Version : i \in 1..Len(available)} |->
        LET i == CHOOSE k \in 1..Len(available) :
                     /\ available[k].Version = v
                     /\ \A j \in (k + 1)..Len(available) : available[j].Version # v
        IN  [Version |-> v, SQL |-> available[i].SQL, AppliedAt |-> NilTime]]

\* The loop over appliedMigrations: migration is a copy of the map's value
\* (map[int]Migration), its AppliedAt is assigned and the copy is dropped;
\* a version that is not in the map is skipped
SetAppliedAt(migrationMap, applied) == migrationMap

RECURSIVE SortedVersions(_)
SortedVersions(vs) ==
    IF vs = {} THEN <<>>
    ELSE LET v == CHOOSE x \in vs : \A y \in vs : x <= y
         IN  <<v>> \o SortedVersions(vs \ {v})

\* The map's values, sorted by version
GetMigrationStatus(available, applied) ==
    LET migrationMap == SetAppliedAt(migrationMapOf(available), applied)
        order == SortedVersions(DOMAIN migrationMap)
    IN  [i \in 1..Len(order) |-> migrationMap[order[i]]]

NoStatus == <<>>

\* One call of GetMigrationStatus by a build with the given embedded files
DoGetMigrationStatus ==
    \E entries \in EmbedSets, fault \in StartFaults :
        /\ last = NoCall
        /\ LET av == getAvailableMigrations(entries)
               call == [op |-> "GetMigrationStatus", entries |-> entries,
                        tbl |-> schema_migrations]
           IN  IF fault = "create"
               THEN last' = call @@ [result |-> NoStatus,
                                     err |-> "failed to create migrations table"]
               ELSE IF av.err # "nil"
               THEN last' = call @@ [result |-> NoStatus,
                                     err |-> "failed to get available migrations"]
               ELSE IF fault = "select"
               THEN last' = call @@ [result |-> NoStatus,
                                     err |-> "failed to get applied migrations"]
               ELSE \E available \in av.migrations :
                      last' = call @@
                          [result |-> GetMigrationStatus(available,
                                          getAppliedMigrations(schema_migrations)),
                           err |-> "nil"]
        /\ UNCHANGED <<rows, pc, loc, ret, aggVars, migVars>>

NextMigrationStatus ==
    \/ MigrateStart
    \/ MigrateBeginTx
    \/ MigrateExecScript
    \/ MigrateRecord
    \/ MigrateCommit
    \/ MigrateInterrupt
    \/ DoGetMigrationStatus

SpecMigrationStatus == Init /\ [][NextMigrationStatus]_vars

---------------------------------------------------------------------------
(* SpecValueObjects: the constructors and the arithmetic of the value      *)
(* objects, applied to inputs from bounded sets                            *)

\* Amount.value is an int64; the model keeps two's complement wrap-around on
\* AmountBits bits
AmountBits == 4

MinCents == -(2 ^ (AmountBits - 1))
MaxCents == 2 ^ (AmountBits - 1) - 1

\* The value an integer result has in the machine word
Int64(x) == ((x - MinCents) % (2 ^ AmountBits)) + MinCents

\* Amount.Add
Add(a, other) == Int64(a + other)

\* Amount.Subtract without the test for a negative result
Subtract_NoGuard(a, other) == [value |-> Int64(a - other), err |-> "nil"]

\* Amount.Subtract: [value, err]
Subtract(a, other) ==
    IF a < other
    THEN [value |-> 0, err |-> "cannot subtract, result would be negative"]
    ELSE [value |-> Int64(a - other), err |-> "nil"]

AmountOps == {"Add", "Subtract"}

\* The amounts NewAmountFromCents constructs from the smallest and largest
\* cent counts
AmountInputs ==
    {NewAmountFromCents(c).value : c \in {0, 1, MaxCents - 1, MaxCents}}

\* The amounts a caller holds: constructed ones and the last result
HeldAmounts ==
    AmountInputs \cup
    (IF last.op \in AmountOps /\ last.err = "nil" THEN {last.value} ELSE {})

\* The call before this one, without its own history
Previous == IF last.op \in AmountOps THEN [last EXCEPT !.from = NoCall] ELSE NoCall

DoAdd ==
    /\ \E a \in HeldAmounts, other \in HeldAmounts :
        last' = [op |-> "Add", a |-> a, other |-> other,
                 value |-> Add(a, other), err |-> "nil", from |-> Previous]
    /\ UNCHANGED <<rows, pc, loc, ret, aggVars, migVars>>

DoSubtract ==
    /\ \E a \in HeldAmounts, other \in HeldAmounts :
        LET s == Subtract(a, other)
        IN  last' = [op |-> "Subtract", a |-> a, other |-> other,
                     value |-> s.value, err |-> s.err, from |-> Previous]
    /\ UNCHANGED <<rows, pc, loc, ret, aggVars, migVars>>

\* strings.ToLower on ASCII, to build inputs
ToLower(s) ==
    [i \in 1..Len(s) |->
        IF s[i] \in UpperLetters
        THEN LowerSeq[CHOOSE k \in 1..26 : UpperSeq[k] = s[i]]
        ELSE s[i]]

\* s with a space after its 4th character and one at its end
Spaced(s) == SubSeq(s, 1, Min(4, Len(s))) \o <<" ">> \o SubSeq(s, 5, Len(s)) \o <<" ">>

\* s with its i-th character replaced by c
WithChar(s, i, c) == [s EXCEPT ![i] = c]

\* Account identifiers of the shortest and the longest accepted length
IBAN15 == <<"D","E","8","9","3","7","0","4","0","0","4","4","0","5","3">>
IBAN31 == IBAN15 \o <<"2","0","1","3","0","0","0","A","B","C","D","E","F","G","H","9">>

\* Well-formed ones, and ones that are too short, too long, empty, or have a
\* character of the wrong class; each also in lower case and with spaces
IBANBases ==
    {IBAN15, IBAN31, WithChar(IBAN15, 6, "X"),
     SubSeq(IBAN15, 1, 14), IBAN31 \o <<"0">>, <<>>,
     WithChar(IBAN15, 1, "1"), WithChar(IBAN15, 3, "A"),
     WithChar(IBAN15, 10, "A"), WithChar(IBAN15, 7, "-"),
     WithChar(IBAN31, 20, "_")}

IBANInputs ==
    IBANBases \cup {ToLower(s) : s \in IBANBases}
              \cup {Spaced(s) : s \in IBANBases}
              \cup {Spaced(ToLower(s)) : s \in IBANBases}

DoNewIBAN ==
    /\ \E value \in IBANInputs :
        LET i == NewIBAN(value)
        IN  last' = [op |-> "NewIBAN", input |-> value, value |-> i.value,
                     err |-> i.err]
    /\ UNCHANGED <<rows, pc, loc, ret, aggVars, migVars>>

\* Tokens: well-formed in both cases, too short, too long, empty, and of the
\* right length with a character that is not a letter or digit
KeyInputs ==
    {RawKey1, RawKey2, ToUpper(RawKey1), ToLower(RawKey1),
     SubSeq(RawKey1, 1, KeyLen - 1), RawKey1 \o <<"0">>, <<>>,
     WithChar(RawKey1, 5, "-"), WithChar(RawKey1, 1, " "),
     WithChar(RawKey1, KeyLen, "_")}

DoNewIdempotencyKey ==
    /\ \E value \in KeyInputs :
        LET k == NewIdempotencyKey(value)
        IN  last' = [op |-> "NewIdempotencyKey", input |-> value,
                     value |-> k.value, err |-> k.err]
    /\ UNCHANGED <<rows, pc, loc, ret, aggVars, migVars>>

NextValueObjects ==
    \/ DoAdd
    \/ DoSubtract
    \/ DoNewIBAN
    \/ DoNewIdempotencyKey

SpecValueObjects == Init /\ [][NextValueObjects]_vars

---------------------------------------------------------------------------
(* SpecLoad: FindByID and FindByIdempotencyKey on a payments table holding *)
(* a row that was not written by Save                                      *)

\* Rows as a SELECT can return them, whatever constraints the table was
\* created with: every column well formed or not
RawRows ==
    {[id |-> "p1",
      debtor_iban |-> di,
      debtor_name |-> dn,
      creditor_iban |-> CreditorIBAN,
      creditor_name |-> StoreCreditorName,
      amount_cents |-> c,
      currency |-> "EUR",
      idempotency_key |-> k,
      status |-> s,
      created_at |-> CreateTime,
      updated_at |-> MaxTime] :
        di \in {DebtorIBAN, WithChar(DebtorIBAN, 3, "A")},
        dn \in {Name(MinNameLen - 1), StoreDebtorName, LongName},
        c \in {-1, 0, 10050},
        k \in {RawKey1, SubSeq(RawKey1, 1, KeyLen - 1), WithChar(RawKey1, 5, "-")},
        s \in StatusInputs}

\* A row is written to the empty table by SQL of its own
InsertRawRow ==
    /\ rows = {}
    /\ \E r \in RawRows :
        /\ rows' = {r}
        /\ last' = [op |-> "Insert", row |-> r]
    /\ UNCHANGED <<pc, loc, ret, aggVars, migVars>>

NextLoad ==
    \/ InsertRawRow
    \/ DoFindByID
    \/ DoFindByIdempotencyKey

SpecLoad == Init /\ [][NextLoad]_vars

---------------------------------------------------------------------------
(* SpecStoredStatus: the writes to the payments table, with statuses and   *)
(* aggregates the domain does not produce among the inputs                 *)

\* Save of a Payment that no constructor built: the zero value, whose status
\* is the empty string
DoSaveZero ==
    /\ Idle
    /\ \E o \in Save(rows, EmptyPayment) :
        /\ rows' = o.rows
        /\ last' = [op |-> "Save", p |-> EmptyPayment, err |-> o.err]
    /\ UNCHANGED <<pc, loc, ret, aggVars, migVars>>

NextStoredStatus ==
    \/ DoSave
    \/ DoSaveZero
    \/ DoUpdateStatus

SpecStoredStatus == Init /\ [][NextStoredStatus]_vars

---------------------------------------------------------------------------
(* SpecContext: the persistence operations called with a context that is   *)
(* live, cancelled or past its deadline.  database/sql tests ctx.Done()    *)
(* before it takes a connection: with a done context ExecContext,          *)
(* QueryRowContext and PingContext return ctx.Err() and no statement runs. *)

Contexts == {"live", "context canceled", "context deadline exceeded"}

\* ctx.Err()
ctxErr(ctx) == IF ctx = "live" THEN "nil" ELSE ctx

\* Save running its INSERT whatever the context
CtxSave_IgnoresContext(ctx, rws, p) == Save(rws, p)

\* PaymentRepository.Save(ctx, p): the outcomes [rows, err]
CtxSave(ctx, rws, p) ==
    IF IsNil(p)
    THEN {[rows |-> rws, err |-> "payment cannot be nil"]}
    ELSE IF ctxErr(ctx) # "nil"
    THEN {[rows |-> rws,
           err |-> IF isUniqueConstraintError(ctxErr(ctx))
                   THEN "ErrDuplicateIdempotencyKey"
                   ELSE "failed to save payment"]}
    ELSE Save(rws, p)

\* PaymentRepository.FindByID(ctx, id): row.Scan returns the context's error,
\* which is not sql.ErrNoRows
CtxFindByID(ctx, rws, id) ==
    IF ctxErr(ctx) # "nil"
    THEN [payment |-> NilPayment, err |-> "failed to find payment by ID"]
    ELSE FindByID(rws, id)

\* PaymentRepository.FindByIdempotencyKey(ctx, key)
CtxFindByIdempotencyKey(ctx, rws, key) ==
    IF ctxErr(ctx) # "nil"
    THEN [payment |-> NilPayment,
          err |-> "failed to find payment by idempotency key"]
    ELSE FindByIdempotencyKey(rws, key)

\* PaymentRepository.UpdateStatus(ctx, id, status)
CtxUpdateStatus(ctx, rws, id, status, now) ==
    IF ctxErr(ctx) # "nil"
    THEN [rows |-> rws, err |-> "failed to update payment status"]
    ELSE UpdateStatus(rws, id, status, now)

\* Database.HealthCheck(ctx) on a database with the payments table: Ping,
\* SELECT 1, SELECT COUNT(*) FROM payments
HealthCheck(ctx, rws) ==
    IF ctxErr(ctx) # "nil" THEN "ping failed"
    ELSE LET result == 1
             count == Cardinality(rws)
         IN  IF result # 1 THEN "unexpected query result" ELSE "nil"

\* The aggregates saved here
CtxPayments == Built({StoreDebtorName}) \cup {NilPayment}

DoCtxSave ==
    /\ \E ctx \in Contexts, p \in CtxPayments : \E o \in CtxSave(ctx, rows, p) :
        /\ rows' = o.rows
        /\ last' = [op |-> "Save", ctx |-> ctx, p |-> p, err |-> o.err]
    /\ UNCHANGED <<pc, loc, ret, aggVars, migVars>>

DoCtxFindByID ==
    /\ \E ctx \in Contexts, id \in Ids :
        LET f == CtxFindByID(ctx, rows, id)
        IN  last' = [op |-> "FindByID", ctx |-> ctx, id |-> id,
                     payment |-> f.payment, err |-> f.err]
    /\ UNCHANGED <<rows, pc, loc, ret, aggVars, migVars>>

DoCtxFindByIdempotencyKey ==
    /\ \E ctx \in Contexts, k \in Keys :
        LET f == CtxFindByIdempotencyKey(ctx, rows, k)
        IN  last' = [op |-> "FindByIdempotencyKey", ctx |-> ctx, key |-> k,
                     payment |-> f.payment, err |-> f.err]
    /\ UNCHANGED <<rows, pc, loc, ret, aggVars, migVars>>

DoCtxUpdateStatus ==
    /\ \E ctx \in Contexts, id \in Ids, now \in CallTimes :
        \E st \in {StatusProcessed, StatusFailed} :
        LET u == CtxUpdateStatus(ctx, rows, id, st, now)
        IN  /\ rows' = u.rows
            /\ last' = [op |-> "UpdateStatus", ctx |-> ctx, id |-> id,
                        status |-> st, err |-> u.err]
    /\ UNCHANGED <<pc, loc, ret, aggVars, migVars>>

DoHealthCheck ==
    /\ \E ctx \in Contexts :
        last' = [op |-> "HealthCheck", ctx |-> ctx, err |-> HealthCheck(ctx, rows)]
    /\ UNCHANGED <<rows, pc, loc, ret, aggVars, migVars>>

\* The build whose migrator runs here
CtxEmbed == <<File001, File010, File9, TestDataFile>>

\* Migrate(ctx) with a done context: createMigrationsTable fails and the run
\* returns before it reads the scripts or the tracking table
MigrateCancelled ==
    /\ \E m \in Migrators, ctx \in Contexts \ {"live"} :
        /\ mig[m].pc \in {"idle", "done"}
        /\ RunsStarted(Migrators) < MaxRuns
        /\ mig' = [mig EXCEPT ![m] =
                     Returned([NoRun EXCEPT !.runs = mig[m].runs + 1,
                                            !.entries = CtxEmbed,
                                            !.before = schema_migrations],
                              "failed to create migrations table")]
        /\ last' = [op |-> "Migrate", ctx |-> ctx,
                    err |-> "failed to create migrations table"]
    /\ UNCHANGED <<schema_migrations, schemaEffects, rows, pc, loc, ret, aggVars>>

NextContext ==
    \/ DoCtxSave
    \/ DoCtxFindByID
    \/ DoCtxFindByIdempotencyKey
    \/ DoCtxUpdateStatus
    \/ DoHealthCheck
    \/ MigrateCancelled

SpecContext == Init /\ [][NextContext]_vars

----------------------------------------------------------------------------
(* SpecSaveErrors: Save with every kind of outcome: stored, duplicate,     *)
(* refused by a CHECK constraint, nil payment, done context                *)

NextSaveErrors ==
    \/ DoSave
    \/ DoSaveZero
    \/ DoCtxSave

SpecSaveErrors == Init /\ [][NextSaveErrors]_vars

---------------------------------------------------------------------------
(* Claims about the aggregate, checked under SpecAggregate *)

MarkOps == {"MarkAsProcessed", "MarkAsFailed"}

TargetOf(op) == IF op = "MarkAsProcessed" THEN StatusProcessed ELSE StatusFailed

\* C3: the only status changes a call makes are Pending -> Processed (by
\* MarkAsProcessed) and Pending -> Failed (by MarkAsFailed); a call on a
\* Processed or Failed aggregate fails with ErrInvalidStatusTransition and
\* keeps the status; no call takes an aggregate back to Pending.
C3_OnlyLegalTransitions ==
    aggLast.op \in MarkOps =>
        LET b == aggLast.before
        IN  /\ agg.status # b.status =>
                 /\ b.status = StatusPending
                 /\ agg.status = TargetOf(aggLast.op)
            /\ IsFinal(b.status) =>
                 /\ aggLast.err = "ErrInvalidStatusTransition"
                 /\ agg.status = b.status
            /\ b.status # StatusPending => agg.status # StatusPending

C3_Witness ==
    /\ aggLast.op = "MarkAsFailed"
    /\ aggLast.before.status = StatusProcessed
    /\ aggLast.err = "ErrInvalidStatusTransition"

\* C4: a freshly constructed aggregate is Pending; of the MarkAs... calls made
\* on it exactly the first succeeds and every later one fails with
\* ErrInvalidStatusTransition; a Processed or Failed status is kept by every call.
C4_FirstCallOnly ==
    /\ (aggLast.op = "NewPayment" /\ aggLast.err = "nil") =>
           agg.status = StatusPending
    /\ \A i \in 1..Len(markLog) :
           markLog[i] = IF i = 1 THEN "nil" ELSE "ErrInvalidStatusTransition"
    /\ (aggLast.op \in MarkOps /\ IsFinal(aggLast.before.status)) =>
           agg.status = aggLast.before.status

C4_Witness ==
    /\ Len(markLog) >= 3
    /\ markLog[1] = "nil"
    /\ markLog[3] = "ErrInvalidStatusTransition"
    /\ IsFinal(agg.status)

\* C5: a MarkAs... call that fails with ErrInvalidStatusTransition leaves
\* every field of the aggregate as it was before the call.
C5_FailedMarkChangesNothing ==
    (aggLast.op \in MarkOps /\ aggLast.err = "ErrInvalidStatusTransition") =>
        agg = aggLast.before

C5_Witness ==
    /\ aggLast.op = "MarkAsProcessed"
    /\ aggLast.err = "ErrInvalidStatusTransition"
    /\ aggLast.t # aggLast.before.updatedAt

\* C6: a successful MarkAsProcessed(t) or MarkAsFailed(t) sets the status to
\* the target status and the last-update timestamp to t, and keeps the id, the
\* account identifiers, the names, the amount, the token and the creation time.
C6_SuccessfulMarkEffect ==
    (aggLast.op \in MarkOps /\ aggLast.err = "nil") =>
        LET b == aggLast.before
        IN  /\ agg.status = TargetOf(aggLast.op)
            /\ agg.updatedAt = aggLast.t
            /\ agg.id = b.id
            /\ agg.debtorIBAN = b.debtorIBAN
            /\ agg.debtorName = b.debtorName
            /\ agg.creditorIBAN = b.creditorIBAN
            /\ agg.creditorName = b.creditorName
            /\ agg.amount = b.amount
            /\ agg.idempotencyKey = b.idempotencyKey
            /\ agg.createdAt = b.createdAt

C6_Witness ==
    /\ aggLast.op = "MarkAsFailed"
    /\ aggLast.err = "nil"
    /\ aggLast.t # aggLast.before.updatedAt

NameInBounds(n) == Len(n) >= MinNameLen /\ Len(n) <= SchemaMaxNameLen

\* C7: NewPayment returns an aggregate exactly when both names have between
\* 3 and 30 characters and the amount is not zero; otherwise it returns an
\* error and no aggregate.
C7_NewPaymentValidates ==
    aggLast.op = "NewPayment" =>
        LET valid == /\ NameInBounds(aggLast.debtorName)
                     /\ NameInBounds(aggLast.creditorName)
                     /\ aggLast.amount # 0
        IN  /\ valid <=> (aggLast.err = "nil" /\ ~IsNil(agg))
            /\ ~valid => (aggLast.err # "nil" /\ IsNil(agg))

C7_Witness ==
    /\ aggLast.op = "NewPayment"
    /\ Len(aggLast.debtorName) > SchemaMaxNameLen
    /\ aggLast.err = "nil"
    /\ ~IsNil(agg)

---------------------------------------------------------------------------
(* Claims about the repository and the service *)

\* C1: of two Save calls that carry the same idempotency token and different
\* ids, in either order or overlapping, exactly one returns nil and the other
\* ErrDuplicateIdempotencyKey, and no row with the losing call's id is stored.
C1_ExactlyOneSaveWins ==
    \A c \in Callers, d \in Callers :
        (/\ c # d
         /\ ret[c].op = "Save" /\ ret[d].op = "Save"
         /\ ~IsNil(ret[c].p) /\ ~IsNil(ret[d].p)
         /\ ret[c].p.idempotencyKey = ret[d].p.idempotencyKey
         /\ ret[c].p.id # ret[d].p.id)
        => \E w \in {c, d} : \E l \in {c, d} \ {w} :
               /\ ret[w].err = "nil"
               /\ ret[l].err = "ErrDuplicateIdempotencyKey"
               /\ \A r \in rows : r.id # ret[l].p.id

\* Two Save calls with one token and different ids have returned, and neither
\* reported a duplicate: one inserted its row, the other failed a CHECK
C1_Witness ==
    \E c \in Callers, d \in Callers :
        /\ c # d
        /\ ret[c].op = "Save" /\ ret[d].op = "Save"
        /\ ~IsNil(ret[c].p) /\ ~IsNil(ret[d].p)
        /\ ret[c].p.idempotencyKey = ret[d].p.idempotencyKey
        /\ ret[c].p.id # ret[d].p.id
        /\ ret[c].err = "nil"
        /\ ret[d].err = "failed to save payment"
        /\ ret[d].overlapped

\* C2: the table never holds two rows with the same idempotency token, nor
\* two rows with the same id.
C2_OneRowPerTokenAndId ==
    \A r1 \in rows, r2 \in rows :
        (r1.id = r2.id \/ r1.idempotency_key = r2.idempotency_key) => r1 = r2

\* A retransmission was refused while a status update was in flight
C2_Witness ==
    /\ Cardinality(rows) = 2
    /\ last.op = "Save"
    /\ last.err = "ErrDuplicateIdempotencyKey"
    /\ \E c \in Callers : pc[c] = "save"

FindOps == {"FindByID", "FindByIdempotencyKey"}

\* C8: FindByID for an id with no row and FindByIdempotencyKey for a token
\* with no row return ErrPaymentNotFound; neither ever returns a nil
\* aggregate with a nil error.
C8_NotFoundIsAnError ==
    /\ (last.op = "FindByID" /\ ~\E r \in rows : r.id = last.id) =>
           last.err = "ErrPaymentNotFound"
    /\ (last.op = "FindByIdempotencyKey"
          /\ ~\E r \in rows : r.idempotency_key = last.key) =>
           last.err = "ErrPaymentNotFound"
    /\ last.op \in FindOps => ~(IsNil(last.payment) /\ last.err = "nil")

C8_Witness ==
    /\ last.op = "FindByID"
    /\ ~\E r \in rows : r.id = last.id
    /\ IsNil(last.payment)
    /\ last.err = "nil"

SameFields(q, p) ==
    /\ ~IsNil(q)
    /\ q.id = p.id
    /\ q.debtorIBAN = p.debtorIBAN
    /\ q.creditorIBAN = p.creditorIBAN
    /\ q.debtorName = p.debtorName
    /\ q.creditorName = p.creditorName
    /\ q.amount = p.amount
    /\ q.idempotencyKey = p.idempotencyKey
    /\ q.status = p.status

\* C9: right after Save(p) has succeeded, FindByID(p.id) and
\* FindByIdempotencyKey(p.token) return without error an aggregate equal to p
\* in id, account identifiers, names, amount, token and status.
C9_SaveFindRoundTrip ==
    (last.op = "Save" /\ last.err = "nil") =>
        LET f == FindByID(rows, last.p.id)
            g == FindByIdempotencyKey(rows, last.p.idempotencyKey)
        IN  /\ f.err = "nil" /\ SameFields(f.payment, last.p)
            /\ g.err = "nil" /\ SameFields(g.payment, last.p)

C9_Witness ==
    /\ last.op = "Save"
    /\ last.err = "nil"
    /\ last.p.status = StatusFailed
    /\ Cardinality(rows) = 2

\* C10: ProcessStatusUpdate(i, PROCESSED or FAILED, t) on a payment that was
\* saved and is stored as Pending returns nil, and FindByID(i) then returns an
\* aggregate in the requested status.
C10_StatusUpdateSucceeds ==
    (/\ last.op = "ProcessStatusUpdate"
     /\ last.newStatus \in {StatusProcessed, StatusFailed}
     /\ ~IsNil(last.loaded)
     /\ last.loaded.status = StatusPending)
    => /\ last.err = "nil"
       /\ ~IsNil(FindByID(rows, last.id).payment)
       /\ FindByID(rows, last.id).payment.status = last.newStatus

\* The update of a stored Pending payment came back from Save as a duplicate,
\* the row still Pending
C10_Witness ==
    /\ last.op = "ProcessStatusUpdate"
    /\ last.newStatus = StatusProcessed
    /\ ~IsNil(last.loaded)
    /\ last.loaded.status = StatusPending
    /\ last.err = "ErrDuplicateIdempotencyKey"
    /\ \E r \in rows : r.id = last.id /\ r.status = StatusPending

TerminalStatuses == {StatusProcessed, StatusFailed}

StatusUpdateOps == {"ProcessStatusUpdate", "Service.ProcessStatusUpdate"}

\* C11: a ProcessStatusUpdate call to PROCESSED or FAILED that finds the
\* stored status already PROCESSED or FAILED returns
\* ErrInvalidStatusTransition and leaves every stored row as it was.
C11_TerminalStatusIsKept ==
    [][(/\ last'.op \in StatusUpdateOps
        /\ ~IsNil(last'.loaded)
        /\ IsFinal(last'.loaded.status)
        /\ last'.newStatus \in TerminalStatuses)
       => (/\ last'.err = "ErrInvalidStatusTransition"
           /\ rows' = rows)]_vars

\* A status update succeeded, and a later one on the same id was refused
C11_Witness ==
    /\ last.op = "Service.ProcessStatusUpdate"
    /\ ~IsNil(last.loaded)
    /\ last.loaded.status = StatusProcessed
    /\ last.newStatus = StatusFailed
    /\ last.err = "ErrInvalidStatusTransition"
    /\ StoredStatus(rows, last.id) = StatusProcessed
    /\ \E c \in Callers :
        /\ ret[c].op = "Service.ProcessStatusUpdate"
        /\ ret[c].id = last.id
        /\ ret[c].newStatus = StatusProcessed
        /\ ret[c].err = "nil"

\* C12: two status updates of one Pending id that both passed the guard in
\* memory both return nil whatever the stored status has become meanwhile,
\* and the stored status is the one the later UPDATE wrote.
C12_LastWriteWins ==
    /\ \A c \in Callers :
        (/\ ret[c].op = "Service.ProcessStatusUpdate"
         /\ ret[c].loaded.status = StatusPending
         /\ ret[c].newStatus \in TerminalStatuses)
        => ret[c].err = "nil"
    /\ (last.op = "Service.ProcessStatusUpdate" /\ last.err = "nil")
        => StoredStatus(rows, last.id) = last.newStatus

\* Both callers loaded the Pending row, one wrote PROCESSED, then the other
\* wrote FAILED over it; both returned nil
C12_Witness ==
    \E c \in Callers, d \in Callers :
        /\ c # d
        /\ ret[c].op = "Service.ProcessStatusUpdate"
        /\ ret[d].op = "Service.ProcessStatusUpdate"
        /\ ret[c].id = ret[d].id
        /\ ret[c].loaded.status = StatusPending
        /\ ret[d].loaded.status = StatusPending
        /\ ret[c].newStatus = StatusProcessed /\ ret[c].err = "nil"
        /\ ret[c].before = StatusPending
        /\ ret[d].newStatus = StatusFailed /\ ret[d].err = "nil"
        /\ ret[d].before = StatusProcessed
        /\ last = ret[d]
        /\ StoredStatus(rows, ret[d].id) = StatusFailed

\* C13: EnsureIdempotency(token) returns ErrDuplicatePayment with the stored
\* aggregate when a row carries the token, a nil error with an empty payment
\* when no row carries it, and any other repository error unchanged.
C13_EnsureIdempotencyOutcomes ==
    last.op = "EnsureIdempotency" =>
        LET f == FindByIdempotencyKey(rows, last.key)
        IN  /\ (\E r \in rows : r.idempotency_key = last.key) =>
                  /\ last.err = "ErrDuplicatePayment"
                  /\ ~IsNil(last.payment)
                  /\ \E r \in rows : /\ r.idempotency_key = last.key
                                     /\ r.id = last.payment.id
            /\ (~\E r \in rows : r.idempotency_key = last.key) =>
                  /\ last.err = "nil"
                  /\ last.payment = EmptyPayment
            /\ f.err \notin {"nil", "ErrPaymentNotFound"} => last.err = f.err

\* EnsureIdempotency of a token no row carries reported a duplicate
C13_Witness ==
    /\ last.op = "EnsureIdempotency"
    /\ ~\E r \in rows : r.idempotency_key = last.key
    /\ last.err = "ErrDuplicatePayment"
    /\ IsNil(last.payment)

\* C14: UpdateStatus(id, s) for an id with no stored row returns
\* ErrPaymentNotFound and changes no row.
C14_UpdateStatusNotFound ==
    [][(last'.op = "UpdateStatus" /\ ~\E r \in rows : r.id = last'.id)
       => (last'.err = "ErrPaymentNotFound" /\ rows' = rows)]_vars

C14_Witness ==
    /\ last.op = "UpdateStatus"
    /\ last.status = StatusProcessed
    /\ ~\E r \in rows : r.id = last.id
    /\ last.err = "payment with ID not found"
    /\ rows # {}

\* C15: Save returns ErrDuplicateIdempotencyKey only when a stored row
\* already carries the aggregate's idempotency token; a failed INSERT of a
\* token that is not stored is reported as a wrapped storage error.
C15_DuplicateOnlyForToken ==
    (last.op = "Save" /\ ~IsNil(last.p) /\ last.err # "nil") =>
        LET stored == \E r \in rows : r.idempotency_key = last.p.idempotencyKey
        IN  /\ last.err = "ErrDuplicateIdempotencyKey" => stored
            /\ ~stored => last.err = "failed to save payment"

\* A Save that collided on the id alone was reported as a duplicate token
C15_Witness ==
    /\ last.op = "Save"
    /\ ~IsNil(last.p)
    /\ last.err = "ErrDuplicateIdempotencyKey"
    /\ \E r \in rows : r.id = last.p.id
    /\ ~\E r \in rows : r.idempotency_key = last.p.idempotencyKey

\* C16: two Save calls, one after the other or overlapping, for aggregates
\* with names of 3 to 30 characters, different ids and different idempotency
\* tokens both return nil, and both rows are stored.
C16_IndependentSaves ==
    \A c \in Callers, d \in Callers :
        (/\ c # d
         /\ ret[c].op = "Save" /\ ret[d].op = "Save"
         /\ ~IsNil(ret[c].p) /\ ~IsNil(ret[d].p)
         /\ NameInBounds(ret[c].p.debtorName) /\ NameInBounds(ret[c].p.creditorName)
         /\ NameInBounds(ret[d].p.debtorName) /\ NameInBounds(ret[d].p.creditorName)
         /\ ret[c].p.id # ret[d].p.id
         /\ ret[c].p.idempotencyKey # ret[d].p.idempotencyKey)
        => /\ ret[c].err = "nil" /\ ret[d].err = "nil"
           /\ RowOf(ret[c].p) \in rows /\ RowOf(ret[d].p) \in rows

C16_Witness ==
    /\ ret["c1"].op = "Save" /\ ret["c2"].op = "Save"
    /\ ~IsNil(ret["c1"].p) /\ ~IsNil(ret["c2"].p)
    /\ ret["c1"].p.id # ret["c2"].p.id
    /\ ret["c1"].p.idempotencyKey # ret["c2"].p.idempotencyKey
    /\ ret["c1"].err = "nil" /\ ret["c2"].err = "nil"
    /\ ret["c1"].overlapped
    /\ Cardinality(rows) = 2

---------------------------------------------------------------------------
(* Claims about the migrator, checked under SpecMigrate *)

Range(q) == {q[i] : i \in 1..Len(q)}

Ascending(q) == \A i, j \in 1..Len(q) : i < j => q[i] < q[j]

\* The migrations a build offers: the versions, and the script of a version
Available(entries) ==
    UNION {Range(a) : a \in getAvailableMigrations(entries).migrations}

\* What each file name parses to, and what a directory holding that file
\* alone offers
ParsedFiles == [f \in MigrationFiles |-> parseMigrationFile(f)]

AvailableAlone == [f \in MigrationFiles |-> Available(<<f>>)]

TrackedVersions == {r.version : r \in schema_migrations}

InApply == {"begin", "exec", "insert", "commit"}

\* C17: within one Migrate run the pending migrations are the available ones
\* not applied at its start, and they are attempted and applied in strictly
\* ascending version order.
C17_AscendingOrder ==
    \A m \in Migrators :
        /\ Ascending(mig[m].attempted)
        /\ Ascending(mig[m].applied)
        /\ Ascending([i \in 1..Len(mig[m].pending) |-> mig[m].pending[i].Version])
        /\ mig[m].pc \in InApply =>
              Range(mig[m].pending) =
                  {a \in Available(mig[m].entries) :
                      a.Version \notin {r.version : r \in mig[m].before}}

\* A run applied versions 1, 9 and 10 in that order (ReadDir lists the file
\* of 10 before the file of 9)
C17_Witness ==
    \E m \in Migrators :
        /\ mig[m].pc = "done"
        /\ mig[m].err = "nil"
        /\ mig[m].applied = <<1, 9, 10>>

\* C18: in every state, each migration script has its effects committed
\* exactly when its version has a tracking row, and committed once.
C18_AllOrNothing ==
    \A f \in MigrationFiles :
        LET pm == ParsedFiles[f]
        IN  IF pm.err = "nil" /\ pm.m \in AvailableAlone[f]
            THEN /\ schemaEffects[f] \in {0, 1}
                 /\ schemaEffects[f] = 1 <=> pm.m.Version \in TrackedVersions
            ELSE schemaEffects[f] = 0

\* A run committed version 1, then lost version 9 after its script had run
\* in the transaction: 9 has neither effects nor a tracking row
C18_Witness ==
    \E m \in Migrators :
        /\ mig[m].pc = "done"
        /\ mig[m].err \in {"failed to record migration", "failed to commit",
                           "interrupted"}
        /\ mig[m].applied = <<1>>
        /\ mig[m].attempted = <<1, 9>>
        /\ schemaEffects[File001] = 1
        /\ schemaEffects[File9] = 0
        /\ TrackedVersions = {1}

\* A step of migrator m in which the statement it executes for its current
\* migration fails
ApplyFails(m) ==
    /\ mig[m].pc \in InApply
    /\ mig'[m] # mig[m]
    /\ ~(mig[m].pc = "begin" /\ mig'[m].pc = "exec")
    /\ ~(mig[m].pc = "exec" /\ mig'[m].pc = "insert")
    /\ ~(mig[m].pc = "insert" /\ mig'[m].pc = "commit")
    /\ ~(mig[m].pc = "commit" /\ Len(mig'[m].applied) = Len(mig[m].applied) + 1)

\* C19: when applying pending version v fails, the run returns an error at
\* once, v gets neither effects nor a tracking row from it, the versions the
\* run applied before stay applied, and the run attempts nothing after v.
C19_FailFast ==
    [][\A m \in Migrators :
          /\ ApplyFails(m) =>
               LET v == mig[m].pending[mig[m].i].Version
               IN  /\ mig'[m].pc = "done"
                   /\ mig'[m].err \notin {"nil", "none"}
                   /\ schema_migrations' = schema_migrations
                   /\ schemaEffects' = schemaEffects
                   /\ v \notin Range(mig'[m].applied)
                   /\ mig'[m].applied = mig[m].applied
                   /\ Range(mig'[m].applied) \subseteq TrackedVersions
                   /\ \A a \in Range(mig'[m].attempted) : a <= v
          /\ (mig[m].pc = "done" /\ mig'[m].runs = mig[m].runs) =>
               mig'[m] = mig[m]]_vars

\* Version 9 failed after version 1 was applied: the run is over with an
\* error, 1 is tracked, 9 and 10 are not, 10 was never attempted
C19_Witness ==
    \E m \in Migrators :
        /\ mig[m].pc = "done"
        /\ mig[m].err = "failed to execute migration SQL"
        /\ mig[m].applied = <<1>>
        /\ mig[m].attempted = <<1, 9>>
        /\ Len(mig[m].pending) = 3
        /\ TrackedVersions = {1}

StartErrors == {"failed to create migrations table",
                "failed to get available migrations",
                "failed to get applied migrations"}

\* C20: a Migrate run that finds every available version applied, and whose
\* statements do not fail, returns nil in its first step without opening a
\* transaction and leaves both tables as they were; after any successful run
\* there is exactly one tracking row per available version, and a tracking
\* row once written is never changed.
C20_Idempotent ==
    /\ [][\A m \in Migrators :
            (/\ mig'[m].runs = mig[m].runs + 1
             /\ mig'[m].err \notin StartErrors
             /\ \A a \in Available(mig'[m].entries) : a.Version \in TrackedVersions)
            => /\ mig'[m].pc = "done"
               /\ mig'[m].err = "nil"
               /\ mig'[m].attempted = <<>>
               /\ schema_migrations' = schema_migrations
               /\ schemaEffects' = schemaEffects]_vars
    /\ [](\A m \in Migrators :
            /\ mig[m].before \subseteq schema_migrations
            /\ (mig[m].pc = "done" /\ mig[m].err = "nil") =>
                 \A a \in Available(mig[m].entries) :
                     Cardinality({r \in schema_migrations :
                                     r.version = a.Version}) = 1)

\* The second run of a migrator on a database its first run migrated fully
C20_Witness ==
    \E m \in Migrators :
        /\ mig[m].runs = 2
        /\ mig[m].pc = "done"
        /\ mig[m].err = "nil"
        /\ mig[m].attempted = <<>>
        /\ mig[m].before = schema_migrations
        /\ TrackedVersions = {1, 9, 10}
        /\ Len(mig[m].entries) = 4

\* The scripts whose file name parses to version v
ScriptsOf(v) ==
    {f \in MigrationFiles : ParsedFiles[f].err = "nil" /\ ParsedFiles[f].m.Version = v}

\* The versions that have a script, with their scripts
ScriptsByVersion ==
    [v \in {ParsedFiles[f].m.Version :
               f \in {g \in MigrationFiles : ParsedFiles[g].err = "nil"}} |->
        ScriptsOf(v)]

RECURSIVE Commits(_)
Commits(fs) ==
    IF fs = {} THEN 0
    ELSE LET f == CHOOSE x \in fs : TRUE
         IN  schemaEffects[f] + Commits(fs \ {f})

\* C21: over every sequence of Migrate runs, failed and interrupted ones
\* included, the scripts of a version are committed at most once in all and
\* the tracking table holds at most one row per version.
C21_AtMostOncePerVersion ==
    /\ \A r1 \in schema_migrations, r2 \in schema_migrations :
          r1.version = r2.version => r1 = r2
    /\ \A v \in DOMAIN ScriptsByVersion : Commits(ScriptsByVersion[v]) <= 1

\* Two runs both attempted version 1: one committed it, the other ran its
\* script and was refused by the tracking table
C21_Witness ==
    \E m \in Migrators, o \in Migrators :
        /\ m # o
        /\ mig[m].applied = <<1>>
        /\ mig[o].attempted = <<1>>
        /\ mig[o].pc = "done"
        /\ mig[o].err = "failed to record migration"
        /\ schemaEffects[File001] = 1
        /\ Cardinality(schema_migrations) = 1


---------------------------------------------------------------------------
(* Claims about GetMigrationStatus, checked under SpecMigrationStatus *)

StatusReturned == last.op = "GetMigrationStatus" /\ last.err = "nil"

\* The versions the call's build has scripts for, and the versions tracked
\* when it was called
AvailableVersions == {m.Version : m \in Available(last.entries)}

AppliedVersions == {r.version : r \in last.tbl}

\* C22: GetMigrationStatus returns exactly one entry for every version that
\* is available or applied, sorted by ascending version; none is duplicated
\* and none is dropped.
C22_StatusIsTheUnion ==
    StatusReturned =>
        /\ {last.result[i].Version : i \in 1..Len(last.result)}
               = AvailableVersions \cup AppliedVersions
        /\ \A i \in 1..Len(last.result), j \in 1..Len(last.result) :
               i < j => last.result[i].Version < last.result[j].Version

\* A build that ships version 1 only queried a database on which a later
\* build had applied 1, 9 and 10: the answer lists version 1 alone
C22_Witness ==
    /\ StatusReturned
    /\ AvailableVersions = {1}
    /\ AppliedVersions = {1, 9, 10}
    /\ Len(last.result) = 1
    /\ last.result[1].Version = 1


\* C23: GetMigrationStatus reports AppliedAt unset for every version without
\* a tracking row and set to the row's timestamp for every version with one;
\* after a successful Migrate every available version is reported applied.
C23_AppliedAtFollowsTracking ==
    StatusReturned =>
        \A i \in 1..Len(last.result) :
            LET tracked == {r \in last.tbl : r.version = last.result[i].Version}
            IN  /\ tracked = {} => last.result[i].AppliedAt = NilTime
                /\ \A r \in tracked : last.result[i].AppliedAt = <<r.applied_at>>

\* Every available version had been applied by a Migrate that returned nil,
\* and the status that followed reports every one of them as not applied
C23_Witness ==
    /\ StatusReturned
    /\ AvailableVersions = {1, 9, 10}
    /\ AppliedVersions = {1, 9, 10}
    /\ \E m \in Migrators : /\ mig[m].pc = "done"
                            /\ mig[m].err = "nil"
                            /\ mig[m].applied = <<1, 9, 10>>
    /\ Len(last.result) = 3
    /\ \A i \in 1..Len(last.result) : last.result[i].AppliedAt = NilTime


---------------------------------------------------------------------------
(* Claims about misnamed scripts, checked under SpecMigrate *)

\* The file name has no "_" or does not start with a digit
Malformed(f) == "_" \notin Range(f) \/ f[1] \notin Digits

\* The scripts of a build: its .sql files other than the test data
ScriptFiles(entries) ==
    {f \in Range(entries) : HasSuffix(f, DotSql) /\ f # TestDataFile}

\* C24: when a script of the build is misnamed, Migrate fails before any
\* migration is applied: unless creating the tracking table already failed
\* it returns the error of the script enumeration, and in that run no
\* transaction is begun, no script is executed and no tracking row inserted,
\* for the well-named scripts too.
C24_MalformedNameFailsTheRun ==
    \A m \in Migrators :
        (mig[m].pc # "idle" /\ \E f \in ScriptFiles(mig[m].entries) : Malformed(f)) =>
            /\ mig[m].pc = "done"
            /\ mig[m].err \in {"failed to create migrations table",
                               "failed to get available migrations"}
            /\ mig[m].attempted = <<>>
            /\ mig[m].applied = <<>>

\* Both misnamed builds ran Migrate on an empty database: each failed at the
\* enumeration and version 1, well named in both, was not applied
C24_Witness ==
    \E m \in Migrators, o \in Migrators :
        /\ mig[m].pc = "done"
        /\ mig[m].entries = <<File001, BadPrefixFile>>
        /\ mig[m].err = "failed to get available migrations"
        /\ mig[o].pc = "done"
        /\ mig[o].entries = <<File001, NoSeparatorFile>>
        /\ mig[o].err = "failed to get available migrations"
        /\ schema_migrations = {}
        /\ \A f \in MigrationFiles : schemaEffects[f] = 0


---------------------------------------------------------------------------
(* Claims about the value objects, checked under SpecValueObjects *)

\* C27: a.Add(zero) equals a; when a >= b, a.Subtract(b) succeeds and adding
\* b to its result gives a again; when a < b, a.Subtract(b) fails with an
\* error and returns no negative amount.
C27_AmountArithmetic ==
    /\ (last.op = "Add" /\ last.other = 0) => last.value = last.a
    /\ (last.op = "Subtract" /\ last.a >= last.other) => last.err = "nil"
    /\ (last.op = "Add" /\ last.from.op = "Subtract" /\ last.from.err = "nil"
          /\ last.a = last.from.value /\ last.other = last.from.other) =>
           last.value = last.from.a
    /\ (last.op = "Subtract" /\ last.a < last.other) =>
           (last.err # "nil" /\ last.value >= 0)

\* 1 was added to an amount, giving the largest one, and then the largest
\* amount was subtracted from 1
C27_Witness ==
    /\ last.op = "Subtract"
    /\ last.a = 1
    /\ last.other = MaxCents
    /\ last.err # "nil"
    /\ last.from.op = "Add"
    /\ last.from.a = MaxCents - 1
    /\ last.from.other = 1
    /\ last.from.value = MaxCents


\* 2 letters, 2 digits, 4 letters or digits, 7 digits, then at most 16
\* further letters or digits (letters in upper case)
IBANGrammar(s) ==
    /\ \E n \in 0..16 : Len(s) = 15 + n
    /\ \A i \in 1..2 : s[i] \in UpperLetters
    /\ \A i \in 3..4 : s[i] \in Digits
    /\ \A i \in 5..8 : s[i] \in UpperLetters \cup Digits
    /\ \A i \in 9..15 : s[i] \in Digits
    /\ \A i \in 16..Len(s) : s[i] \in UpperLetters \cup Digits

\* The upper-cased, space-stripped form of an input
Normalized(v) == ToUpper(RemoveSpaces(v))

\* C28: NewIBAN accepts an input exactly when its upper-cased, space-stripped
\* form follows the grammar; the stored value is that form, free of
\* lower-case letters and spaces; inputs that differ only in letter case or
\* spaces from an accepted one are accepted with an equal IBAN.
C28_IBANNormalization ==
    last.op = "NewIBAN" =>
        /\ last.err = "nil" <=> IBANGrammar(Normalized(last.input))
        /\ last.err = "nil" =>
              /\ last.value = Normalized(last.input)
              /\ \A i \in 1..Len(last.value) :
                     last.value[i] \notin LowerLetters \cup {" "}
              /\ \A w \in IBANInputs :
                     Normalized(w) = Normalized(last.input) =>
                         NewIBAN(w) = [value |-> last.value, err |-> "nil"]

\* The longest identifier, given in lower case with spaces, was accepted and
\* stored in upper case without them
C28_Witness ==
    /\ last.op = "NewIBAN"
    /\ last.input = Spaced(ToLower(IBAN31))
    /\ last.input # IBAN31
    /\ last.err = "nil"
    /\ last.value = IBAN31

\* Exactly 10 characters, each an ASCII letter or digit
KeyGrammar(s) ==
    /\ Len(s) = 10
    /\ \A i \in 1..Len(s) : s[i] \in UpperLetters \cup LowerLetters \cup Digits

\* C29: NewIdempotencyKey accepts exactly the strings of 10 ASCII letters or
\* digits and keeps the value unchanged, case included; every other string
\* is rejected with ErrInvalidIdempotencyKey.
C29_IdempotencyKeyGrammar ==
    last.op = "NewIdempotencyKey" =>
        IF KeyGrammar(last.input)
        THEN last.err = "nil" /\ last.value = last.input
        ELSE last.err = "ErrInvalidIdempotencyKey"

\* A token of mixed case was accepted as it was given
C29_Witness ==
    /\ last.op = "NewIdempotencyKey"
    /\ last.input = RawKey1
    /\ last.input # ToUpper(RawKey1)
    /\ last.err = "nil"
    /\ last.value = RawKey1


---------------------------------------------------------------------------
(* Claims about loading rows, checked under SpecLoad *)

\* The row breaks a domain invariant
RowViolates(r) ==
    \/ ~IBANGrammar(Normalized(r.debtor_iban))
    \/ ~IBANGrammar(Normalized(r.creditor_iban))
    \/ r.amount_cents <= 0
    \/ ~KeyGrammar(r.idempotency_key)
    \/ ~NameInBounds(r.debtor_name)
    \/ ~NameInBounds(r.creditor_name)
    \/ r.status \notin {"PENDING", "PROCESSED", "FAILED"}

\* The rows the last find selected
Selected ==
    IF last.op = "FindByID" THEN {r \in rows : r.id = last.id}
    ELSE IF last.op = "FindByIdempotencyKey"
    THEN {r \in rows : r.idempotency_key = last.key}
    ELSE {}

\* C25: FindByID and FindByIdempotencyKey fail with an error, returning no
\* aggregate, when the selected row has a grammar-invalid account
\* identifier, an amount that is not positive, a malformed token, a name
\* outside the length bounds or a status outside PENDING/PROCESSED/FAILED.
C25_LoadRevalidates ==
    \A r \in Selected :
        RowViolates(r) => (last.err # "nil" /\ IsNil(last.payment))

\* A row whose only defect is a debtor name of 31 characters was loaded and
\* returned as an aggregate
C25_Witness ==
    /\ last.op = "FindByID"
    /\ last.err = "nil"
    /\ ~IsNil(last.payment)
    /\ last.payment.debtorName = LongName
    /\ \E r \in Selected :
          /\ RowViolates(r)
          /\ ~RowViolates([r EXCEPT !.debtor_name = StoreDebtorName])


---------------------------------------------------------------------------
(* Claims about stored statuses, checked under SpecStoredStatus *)

StoredStatuses == {"PENDING", "PROCESSED", "FAILED"}

\* C26: in every reachable state the status of every stored row is PENDING,
\* PROCESSED or FAILED; a Save or UpdateStatus that carries another status
\* fails and leaves the stored rows unchanged.
C26_StoredStatusInEnumeration ==
    /\ [](\A r \in rows : r.status \in StoredStatuses)
    /\ [][/\ (last'.op = "UpdateStatus" /\ last'.status \notin StoredStatuses) =>
                (last'.err # "nil" /\ rows' = rows)
          /\ (last'.op = "Save" /\ ~IsNil(last'.p)
                /\ last'.p.status \notin StoredStatuses) =>
                (last'.err # "nil" /\ rows' = rows)]_vars

\* UpdateStatus was called with an unknown status for a stored payment, and
\* failed
C26_Witness ==
    /\ last.op = "UpdateStatus"
    /\ last.status = "INVALID"
    /\ \E r \in rows : r.id = last.id /\ r.status = StatusProcessed
    /\ last.err = "failed to update payment status"


---------------------------------------------------------------------------
(* Claims about contexts, checked under SpecContext *)

CtxOps == {"Save", "FindByID", "FindByIdempotencyKey", "UpdateStatus",
           "HealthCheck", "Migrate"}

\* C30: Save, FindByID, FindByIdempotencyKey, UpdateStatus, Migrate and
\* HealthCheck called with a context that is already cancelled or past its
\* deadline return an error, and the payments and the migration tables are
\* as they were before the call.
C30_DoneContextFails ==
    [][(last'.op \in CtxOps /\ last'.ctx # "live") =>
          /\ last'.err # "nil"
          /\ rows' = rows
          /\ schema_migrations' = schema_migrations
          /\ schemaEffects' = schemaEffects]_vars

\* A Save that would have inserted its row into a non-empty table was called
\* with a cancelled context
C30_Witness ==
    /\ last.op = "Save"
    /\ last.ctx = "context canceled"
    /\ ~IsNil(last.p)
    /\ last.err = "failed to save payment"
    /\ rows # {}
    /\ ~\E r \in rows : r.id = last.p.id \/ r.idempotency_key = last.p.idempotencyKey


\* What each embedded directory offers
AvailableByEmbed == [e \in EmbedSets |-> Available(e)]

\* C31: a Migrate run that has pending migrations terminates; when none of
\* its apply steps fails it returns nil, and a run that returns nil (after
\* its last commit, or at once with nothing pending) leaves a tracking row
\* for every available version.
C31_SuccessfulRunTerminates ==
    /\ \A m \in Migrators : []<>(mig[m].pc \notin InApply)
    /\ [][\A m \in Migrators :
            (/\ mig[m].pc \in InApply
             /\ mig'[m].pc = "done"
             /\ ~ApplyFails(m))
            => mig'[m].err = "nil"]_vars
    /\ [][\A m \in Migrators :
            (/\ mig'[m] # mig[m]
             /\ mig'[m].pc = "done"
             /\ mig'[m].err = "nil")
            => \A a \in AvailableByEmbed[mig'[m].entries] :
                   a.Version \in {r.version : r \in schema_migrations'}]_vars

\* A run that started on an empty tracking table went through three
\* migrations without a failing step and returned nil
C31_Witness ==
    \E m \in Migrators :
        /\ mig[m].pc = "done"
        /\ mig[m].err = "nil"
        /\ mig[m].before = {}
        /\ mig[m].attempted = <<1, 9, 10>>
        /\ mig[m].applied = <<1, 9, 10>>
        /\ TrackedVersions = {1, 9, 10}


\* Two migrators whose current runs computed the same non-empty pending list
Racing(m, o) ==
    /\ m # o
    /\ mig[m].pending # <<>>
    /\ mig[m].pending = mig[o].pending

\* C32: when two Migrate runs work on the same pending list, no version is
\* applied by both, no version has two tracking rows, no script has its
\* effects committed twice, and a run that finished while the other had
\* applied one of its pending versions did not return nil.
C32_RacingRunsExcludeEachOther ==
    \A m \in Migrators, o \in Migrators :
        Racing(m, o) =>
            /\ Range(mig[m].applied) \cap Range(mig[o].applied) = {}
            /\ \A i \in 1..Len(mig[m].pending) :
                  LET cur == mig[m].pending[i]
                  IN  /\ Cardinality({r \in schema_migrations :
                                         r.version = cur.Version}) <= 1
                      /\ schemaEffects[cur.SQL] <= 1
            /\ (mig[m].pc = "done" /\ Range(mig[o].applied) # {})
                  => mig[m].err # "nil"

\* Both runs started on the empty tracking table; one applied versions 1, 9
\* and 10, the other attempted version 1 and returned an error
C32_Witness ==
    \E m \in Migrators, o \in Migrators :
        /\ Racing(m, o)
        /\ mig[m].before = {} /\ mig[o].before = {}
        /\ mig[m].pc = "done" /\ mig[m].err = "nil"
        /\ mig[m].applied = <<1, 9, 10>>
        /\ mig[o].pc = "done" /\ mig[o].err # "nil"
        /\ mig[o].attempted = <<1>>
        /\ mig[o].applied = <<>>
        /\ TrackedVersions = {1, 9, 10}


(* Claims about scripts of one version, checked under SpecDuplicateVersions *)

\* C33: after a Migrate run that returned nil, the effects of every script
\* of the build are committed exactly once, also when two of its scripts
\* parse to the same version.
C33_EveryScriptOnce ==
    \A m \in Migrators :
        (mig[m].pc = "done" /\ mig[m].err = "nil") =>
            \A f \in ScriptFiles(mig[m].entries) : schemaEffects[f] = 1

\* "0015_e.sql" and "001_a.sql" are both version 1; a first run committed one
\* of them and failed on the other, and a second run found nothing pending
\* and returned nil with one script never committed
C33_Witness ==
    \E m \in Migrators :
        /\ mig[m].pc = "done"
        /\ mig[m].err = "nil"
        /\ mig[m].entries \in DuplicateEmbedSets
        /\ mig[m].attempted = <<>>
        /\ TrackedVersions = {1}
        /\ \E f \in {File0015, File001} : schemaEffects[f] = 0
        /\ \E f \in {File0015, File001} : schemaEffects[f] = 1


(* Claims about the errors of ProcessStatusUpdate, checked under Spec *)

\* C34: a ProcessStatusUpdate call whose target status is neither PROCESSED
\* nor FAILED returns ErrInvalidPaymentStatus, never reaches its write, and
\* no step in which it returns changes the payments table.
C34_InvalidTargetStatus ==
    /\ [](/\ (last.op \in StatusUpdateOps /\ last.newStatus \notin TerminalStatuses)
               => last.err = "ErrInvalidPaymentStatus"
          /\ \A c \in Callers :
               pc[c] \in {"save", "update"} =>
                   loc[c].newStatus \in TerminalStatuses)
    /\ [][(last'.op \in StatusUpdateOps /\ last'.newStatus \notin TerminalStatuses)
            => rows' = rows]_vars

\* ProcessStatusUpdate to PENDING on a stored payment was refused
C34_Witness ==
    /\ last.op = "ProcessStatusUpdate"
    /\ last.newStatus = StatusPending
    /\ last.err = "ErrInvalidPaymentStatus"
    /\ ~IsNil(last.loaded)
    /\ \E r \in rows : r.id = last.id /\ r.status = StatusPending


\* C35: a ProcessStatusUpdate call for an id that has no row returns
\* ErrPaymentNotFound, and no step in which it returns changes the payments
\* table.
C35_MissingPaymentIsNotFound ==
    /\ []((last.op \in StatusUpdateOps /\ ~\E r \in rows : r.id = last.id)
             => last.err = "ErrPaymentNotFound")
    /\ [][(/\ last'.op \in StatusUpdateOps
           /\ last' # last
           /\ ~\E r \in rows : r.id = last'.id)
            => rows' = rows]_vars

\* ProcessStatusUpdate to PROCESSED for an id without a row went on to the
\* transition with the nil payment FindByID returned
C35_Witness ==
    /\ last.op = "ProcessStatusUpdate"
    /\ last.newStatus = StatusProcessed
    /\ ~\E r \in rows : r.id = last.id
    /\ IsNil(last.loaded)
    /\ last.err = "panic: nil pointer dereference"


(* Claims about the effect of the writes, checked under SpecStoredStatus *)

\* C36: a successful UpdateStatus(id, s) replaces the row with that id by
\* the same row with status s and a new update timestamp; every other row
\* stays, and no row is added or removed.
C36_UpdateStatusFrame ==
    [][(last'.op = "UpdateStatus" /\ last'.err = "nil") =>
          /\ Cardinality(rows') = Cardinality(rows)
          /\ \A x \in rows : x.id # last'.id => x \in rows'
          /\ \E r \in rows, t \in Times :
                /\ r.id = last'.id
                /\ [r EXCEPT !.status = last'.status, !.updated_at = t] \in rows']_vars

\* UpdateStatus set one of two stored payments to PROCESSED; the other is
\* still PENDING with its first timestamp
C36_Witness ==
    /\ last.op = "UpdateStatus"
    /\ last.err = "nil"
    /\ last.status = StatusProcessed
    /\ Cardinality(rows) = 2
    /\ \E r \in rows : /\ r.id = last.id
                       /\ r.status = StatusProcessed
                       /\ r.updated_at = MaxTime
                       /\ r.created_at = CreateTime
    /\ \E x \in rows : /\ x.id # last.id
                       /\ x.status = StatusPending
                       /\ x.updated_at = CreateTime


(* Claims about failed writes, checked under SpecSaveErrors *)

\* C37: a Save that returns an error leaves the payments table as it was:
\* no row is added, removed or changed, also not the row that holds the
\* token of the payment that was refused.
C37_FailedSaveChangesNothing ==
    [][(last'.op = "Save" /\ last'.err # "nil") => rows' = rows]_vars

\* A Save of a second payment with a stored token was refused; the row of
\* the first payment still holds the token
C37_Witness ==
    /\ last.op = "Save"
    /\ last.err = "ErrDuplicateIdempotencyKey"
    /\ ~IsNil(last.p)
    /\ RowOf(last.p) \notin rows
    /\ \E r \in rows : /\ r.idempotency_key = RowOf(last.p).idempotency_key
                       /\ r.id # RowOf(last.p).id


(* Claims about the range of amounts, checked under SpecValueObjects *)

\* C38: Add of two valid amounts (cent counts from 0 to the largest value of
\* the integer type) returns no error and an amount whose cent count is the
\* sum of the two and is not negative.
C38_AddIsTheSum ==
    (last.op = "Add" /\ last.a >= 0 /\ last.other >= 0) =>
        /\ last.err = "nil"
        /\ last.value = last.a + last.other
        /\ last.value >= 0

\* 1 was added to the largest amount: the result is the smallest value of
\* the integer type
C38_Witness ==
    /\ last.op = "Add"
    /\ last.a = MaxCents
    /\ last.other = 1
    /\ last.err = "nil"
    /\ last.value = MinCents

============================================================================
